---- MODULE Spec2Model ----
(***************************************************************************)
(* A model of the ORCA Python interface (opi): the execution wrapper       *)
(* (opi.execution.base / opi.execution.core), the Calculator (opi.core),   *)
(* the environment helper (opi.utils.misc) and the configuration builder   *)
(* (opi.input.core, known through its tests and callers).                  *)
(*                                                                         *)
(* Text is modelled as a sequence of atoms: a path /orca/bin is the        *)
(* sequence <<"/","orca","/","bin">>, a search path list joins such texts  *)
(* with the atom ":" (os.pathsep).  A directory is the sequence of its     *)
(* components, a file name the sequence of its dot-separated parts.        *)
(***************************************************************************)
EXTENDS Integers, Sequences, FiniteSets, TLC

VARIABLES
    os_environ,     \* the object bound to os.environ: [kind, data]
    proc_env,       \* the environment block of the process (putenv; inherited by children)
    org_env,        \* wrapper local: the copy of os.environ taken on entry
    proc_at_start,  \* history: the environment block when the wrapper was entered
    env_pc,         \* position inside the wrapped call
    env_calls,      \* number of wrapped calls finished
    spawned,        \* environment blocks inherited by the processes started so far
    install,        \* what exists on disk at each candidate ORCA location
    orca_folders,   \* BaseRunner._orca_bin_folder and _orca_lib_folder
    path_call,      \* history: inputs and outcome of the last set_orca_path call
    fs,             \* the files of the working directories: path -> lines
    calc,           \* the Calculator: basename, working_dir, inpfile
    cur,            \* the call of run_orca in progress (waiting for the process)
    launches,       \* the processes launched by the current or last call
    last,           \* history: how the last call ended
    run_calls,      \* number of calls started
    Calculator_basename, \* Calculator._basename, and whether the object exists
    basename_call,  \* history: the last assignment of Calculator.basename
    input,          \* the Input: simple_keywords, blocks and arbitrary_strings
    input_hist,     \* history: "added" where the last operation that affected a
                    \* keyword or block type was an addition, else "absent"
    input_call,     \* history: the last operation on the Input and its result
    xyz_input,      \* the lines of the XYZ file, string or buffer that is parsed
    xyz_call,       \* history: the parsing call made, its outcome and its stream
    structure,      \* Calculator.structure: None, a Structure or a BaseStructureFile
    json_via_input, \* Calculator.json_via_input
    write_calls,    \* history: the calls of write_input and how they ended
    open_handles,   \* the files and streams that are open
    io_call,        \* history: the last call that opened a file or stream
    comment_line,   \* the comment line of a structure, as its characters
    energies_call,  \* history: the reading of the comment line and its outcome
    orca_install,   \* the ORCA installation: whether its binary is a file, how it answers --version
    version_calls,  \* the version checks made, with how each ended
    block_arbitrary, \* Block._arbitrary: the value, if any, under each key
    option_ops,     \* the option calls made on the block, with how each ended
    text_stream,    \* the text behind both TrackingTextIO objects, and whether the stream has an attribute file
    textio_obj,     \* the opi.utils.textio.TrackingTextIO: position of its stream, line_number
    tracking_obj,   \* the opi.utils.tracking_text_io.TrackingTextIO: position of its stream, line_number
    text_ops        \* the reads made on both objects, with what each returned

envVars ==
    <<os_environ, proc_env, org_env, proc_at_start, env_pc, env_calls, spawned>>

pathVars ==
    <<install, orca_folders, path_call>>

runVars ==
    <<fs, calc, cur, launches, last, run_calls>>

objVars ==
    <<Calculator_basename, basename_call, input, input_hist, input_call>>

xyzVars ==
    <<xyz_input, xyz_call>>

ioVars ==
    <<structure, json_via_input, write_calls, open_handles, io_call>>

lineVars ==
    <<comment_line, energies_call>>

verVars ==
    <<orca_install, version_calls>>

blockVars ==
    <<block_arbitrary, option_ops>>

textVars ==
    <<text_stream, textio_obj, tracking_obj, text_ops>>

vars ==
    <<envVars, pathVars, runVars, objVars, xyzVars, ioVars, lineVars, verVars, blockVars, textVars>>

exceptEnv ==
    <<pathVars, runVars, objVars, xyzVars, ioVars, lineVars, verVars, blockVars, textVars>>

exceptPath ==
    <<org_env, proc_at_start, env_pc, env_calls, spawned, runVars, objVars, xyzVars, ioVars, lineVars, verVars, blockVars, textVars>>

exceptRun ==
    <<envVars, pathVars, objVars, xyzVars, ioVars, lineVars, verVars, blockVars, textVars>>

exceptBasename ==
    <<envVars, pathVars, runVars, input, input_hist, input_call, xyzVars, ioVars, lineVars, verVars, blockVars, textVars>>

exceptInput ==
    <<envVars, pathVars, runVars, Calculator_basename, basename_call, xyzVars, ioVars, lineVars, verVars, blockVars, textVars>>

exceptXyz ==
    <<envVars, pathVars, runVars, objVars, ioVars, lineVars, verVars, blockVars, textVars>>

exceptVer ==
    <<envVars, pathVars, runVars, objVars, xyzVars, ioVars, lineVars, blockVars, textVars>>

exceptBlock ==
    <<envVars, pathVars, runVars, objVars, xyzVars, ioVars, lineVars, verVars, textVars>>

exceptText ==
    <<envVars, pathVars, runVars, objVars, xyzVars, ioVars, lineVars, verVars, blockVars>>

exceptLine ==
    <<envVars, pathVars, runVars, objVars, xyzVars, ioVars, verVars, blockVars, textVars>>

\* what write_input and the calls that open files leave alone
exceptWrite ==
    <<envVars, pathVars, cur, launches, last, run_calls, Calculator_basename,
      basename_call, input_hist, input_call, xyzVars, lineVars, verVars, blockVars, textVars>>

(***************************************************************************)
(* Bounds of the model                                                     *)
(***************************************************************************)
\* wrapped calls of BaseRunner.run in one behaviour
MaxCalls ==
    2

\* processes started in one behaviour
MaxSpawned ==
    2

\* calls of Calculator.run and Runner.run_orca in one behaviour
MaxRunCalls ==
    1

\* seconds a process is followed while it runs
MaxElapsed ==
    2

\* calls of create_gbw_json, create_property_json and create_jsons in one
\* behaviour
MaxJsonCalls ==
    1

\* characters of a value assigned to Calculator.basename
MaxBasenameLen ==
    3

\* keywords or blocks passed to one operation of Input
MaxItems ==
    2

\* arbitrary strings an Input holds
MaxStrings ==
    1

\* lines of an XYZ file, string or buffer
MaxLines ==
    6

\* characters of a comment line
MaxLineLen ==
    5

\* the number of version checks of a behaviour
MaxVersionCalls ==
    2

\* the number of option calls on a block
MaxOptionOps ==
    3

\* lines of the text read through the two TrackingTextIO classes
MaxTextLines ==
    2

\* reads made on the two TrackingTextIO objects
MaxTextOps ==
    3

\* calls of write_input in one behaviour
MaxWrites ==
    2

\* calls that open files or streams in one behaviour
MaxIoCalls ==
    2

(***************************************************************************)
(* Text helpers                                                            *)
(***************************************************************************)
\* Python's None for an optional path
None ==
    <<>>

pathsep ==
    ":"

\* str(Path): the components preceded by "/" each
RECURSIVE str(_)
str(p) ==
    IF p = <<>> THEN <<>> ELSE <<"/", Head(p)>> \o str(Tail(p))

\* index of the first occurrence of atom sep in text s, 0 when there is none
RECURSIVE find(_, _, _)
find(s, sep, i) ==
    IF i > Len(s) THEN 0
    ELSE IF s[i] = sep THEN i
    ELSE find(s, sep, i + 1)

\* str.split(sep): always at least one part; "" splits into [""]
RECURSIVE split(_, _)
split(s, sep) ==
    LET i == find(s, sep, 1)
    IN  IF i = 0 THEN <<s>>
        ELSE <<SubSeq(s, 1, i - 1)>> \o split(SubSeq(s, i + 1, Len(s)), sep)

\* sep.join(parts)
RECURSIVE join(_, _)
join(sep, parts) ==
    IF Len(parts) = 0 THEN <<>>
    ELSE IF Len(parts) = 1 THEN parts[1]
    ELSE parts[1] \o <<sep>> \o join(sep, Tail(parts))

\* list.insert(pos, x) with a 0-based position 0 <= pos <= len
insert(list, pos, x) ==
    SubSeq(list, 1, pos) \o <<x>> \o SubSeq(list, pos + 1, Len(list))

(***************************************************************************)
(* Environment variables                                                   *)
(***************************************************************************)
EnvNames ==
    {"PATH", "LD_LIBRARY_PATH", "OPI_ORCA"}

Unset ==
    [isset |-> FALSE, val |-> <<>>]

Value(s) ==
    [isset |-> TRUE, val |-> s]

\* env.get(variable, "")
env_get(env, variable) ==
    IF env[variable].isset THEN env[variable].val ELSE <<>>

\* opi.utils.misc.add_to_env on the mapping env; the result tells whether
\* env[variable] was assigned and gives the mapping afterwards
add_to_env(env, variable, value, prepend) ==
    LET current_values == split(env_get(env, variable), pathsep)
        desired_pos    == IF prepend THEN 1 ELSE Len(current_values)
        do_add         == current_values[desired_pos] # value
        insert_pos     == IF prepend THEN 0 ELSE Len(current_values)
        new_values     == insert(current_values, insert_pos, value)
    IN  IF do_add
        THEN [assigned |-> TRUE,
              env |-> [env EXCEPT ![variable] = Value(join(pathsep, new_values))]]
        ELSE [assigned |-> FALSE, env |-> env]

\* add_to_env applied to os.environ: os._Environ.__setitem__ also calls putenv,
\* a plain dict only stores the value
environ_add(st, variable, value) ==
    LET r == add_to_env(st.obj.data, variable, value, TRUE)
    IN  IF ~r.assigned THEN st
        ELSE [obj  |-> [st.obj EXCEPT !.data = r.env],
              penv |-> IF st.obj.kind = "Environ"
                       THEN [st.penv EXCEPT ![variable] = r.env[variable]]
                       ELSE st.penv]

(***************************************************************************)
(* The runners whose run() is wrapped by _orca_environment                 *)
(***************************************************************************)
OrcaDir ==
    <<"orca">>

MpiDir ==
    <<"mpi">>

UsrBin ==
    <<"usr", "bin">>

Runners ==
    { [orca_bin_folder |-> OrcaDir \o <<"bin">>, orca_lib_folder |-> OrcaDir \o <<"lib">>,
       open_mpi_path |-> None],
      [orca_bin_folder |-> OrcaDir \o <<"bin">>, orca_lib_folder |-> OrcaDir \o <<"lib">>,
       open_mpi_path |-> MpiDir],
      [orca_bin_folder |-> OrcaDir, orca_lib_folder |-> OrcaDir,
       open_mpi_path |-> None] }

\* the body of the try block before the wrapped function is called
setup_environment(self, st) ==
    LET s1 == environ_add(st, "PATH", str(self.orca_bin_folder))
        s2 == environ_add(s1, "LD_LIBRARY_PATH", str(self.orca_lib_folder))
        s3 == environ_add(s2, "PATH", str(self.open_mpi_path \o <<"bin">>))
        s4 == environ_add(s3, "LD_LIBRARY_PATH", str(self.open_mpi_path \o <<"lib">>))
    IN  IF self.open_mpi_path # None THEN s4 ELSE s2

\* the finally block: the name os.environ is bound to the saved copy
restore_environment(obj, saved) ==
    [kind |-> "dict", data |-> saved]

InitialPaths ==
    { Unset, Value(<<>>), Value(str(UsrBin)),
      Value(str(OrcaDir \o <<"bin">>) \o <<pathsep>> \o str(UsrBin)),
      Value(str(UsrBin) \o <<pathsep>> \o str(OrcaDir \o <<"bin">>)) }

InitialLibPaths ==
    { Unset, Value(<<>>), Value(str(OrcaDir \o <<"lib">>)) }

EnvInit ==
    /\ \E p \in InitialPaths, l \in InitialLibPaths :
          /\ proc_env = [n \in EnvNames |->
                           IF n = "PATH" THEN p
                           ELSE IF n = "LD_LIBRARY_PATH" THEN l ELSE Unset]
          /\ os_environ = [kind |-> "Environ", data |-> proc_env]
    /\ org_env = proc_env
    /\ proc_at_start = proc_env
    /\ env_pc = "idle"
    /\ env_calls = 0
    /\ spawned = <<>>

NotCalled ==
    [exc |-> "not called"]

NoCall ==
    [caller |-> "none"]

RunIdle ==
    /\ fs = <<>>
    /\ calc = [basename |-> <<"job">>, working_dir |-> <<"d1">>, inpfile |-> None]
    /\ cur = NoCall
    /\ launches = <<>>
    /\ last = NoCall
    /\ run_calls = 0

\* the part of the state the execution environment does not touch
PathIdle ==
    /\ install = [r \in {} |-> "missing"]
    /\ orca_folders = [bin |-> None, lib |-> None]
    /\ path_call = NotCalled

\* no Calculator constructed and an empty Input
ObjIdle ==
    /\ Calculator_basename = [exists |-> FALSE, value |-> [type |-> "str", chars |-> <<>>]]
    /\ basename_call = NoCall
    /\ input = [simple_keywords |-> <<>>, blocks |-> {}, arbitrary_strings |-> <<>>]
    /\ input_hist = [kw |-> [k \in {"hf", "ex"} |-> "absent"],
                     blk |-> [t \in {"BlockMethod", "BlockScf"} |-> "absent"]]
    /\ input_call = NoCall

\* nothing to parse and no parsing call made
XyzIdle ==
    /\ xyz_input = <<>>
    /\ xyz_call = NoCall

\* a Calculator as constructed, no write_input call made, nothing open
IoIdle ==
    /\ structure = None
    /\ json_via_input = TRUE
    /\ write_calls = <<>>
    /\ open_handles = {}
    /\ io_call = NoCall

\* no comment line read
LineIdle ==
    /\ comment_line = <<>>
    /\ energies_call = NoCall

\* no version check is made
VerIdle ==
    /\ orca_install = [found |-> TRUE, answer |-> "compatible"]
    /\ version_calls = <<>>

\* no option of a block is touched
BlockIdle ==
    /\ block_arbitrary = <<>>
    /\ option_ops = <<>>

\* no text is read through a TrackingTextIO
TextIdle ==
    /\ text_stream = [lines |-> <<>>, has_file |-> FALSE]
    /\ textio_obj = [pos |-> 0, line_number |-> 0]
    /\ tracking_obj = [pos |-> 0, line_number |-> 0]
    /\ text_ops = <<>>

EnvInitAll ==
    EnvInit /\ PathIdle /\ RunIdle /\ ObjIdle /\ XyzIdle /\ IoIdle /\ LineIdle /\ VerIdle /\ BlockIdle /\ TextIdle

\* wrapper(): org_env = os.environ.copy(), then the environment is set up
WrapperEnter ==
    /\ env_pc = "idle"
    /\ env_calls < MaxCalls
    /\ \E self \in Runners :
          LET st == setup_environment(self, [obj |-> os_environ, penv |-> proc_env])
          IN  /\ os_environ' = st.obj
              /\ proc_env' = st.penv
    /\ org_env' = os_environ.data
    /\ proc_at_start' = proc_env
    /\ env_pc' = "runner"
    /\ UNCHANGED <<env_calls, spawned, exceptEnv>>

\* runner(self, ...): BaseRunner.run returns or raises; a launched binary
\* inherits the environment block of the process (subprocess.run without env)
RunnerCall ==
    /\ env_pc = "runner"
    /\ \E outcome \in {"returned", "ValueError", "FileNotFoundError", "TimeoutExpired"} :
          /\ env_pc' = outcome
          /\ spawned' = IF outcome \in {"returned", "TimeoutExpired"}
                            /\ Len(spawned) < MaxSpawned
                        THEN Append(spawned, [by |-> "run", env |-> proc_env])
                        ELSE spawned
    /\ UNCHANGED <<os_environ, proc_env, org_env, proc_at_start, env_calls, exceptEnv>>

\* finally: os.environ = org_env
WrapperExit ==
    /\ env_pc \in {"returned", "ValueError", "FileNotFoundError", "TimeoutExpired"}
    /\ os_environ' = restore_environment(os_environ, org_env)
    /\ env_pc' = "idle"
    /\ env_calls' = env_calls + 1
    /\ UNCHANGED <<proc_env, org_env, proc_at_start, spawned, exceptEnv>>

\* a process started by the program outside of any wrapped call
SpawnOther ==
    /\ env_pc = "idle"
    /\ Len(spawned) < MaxSpawned
    /\ spawned' = Append(spawned, [by |-> "other", env |-> proc_env])
    /\ UNCHANGED <<os_environ, proc_env, org_env, proc_at_start, env_pc, env_calls, exceptEnv>>

EnvNext ==
    \/ WrapperEnter
    \/ RunnerCall
    \/ WrapperExit
    \/ SpawnOther

SpecEnv ==
    EnvInitAll /\ [][EnvNext]_vars

(***************************************************************************)
(* C1: after every call of BaseRunner.run, returned or raised, the process *)
(* environment equals the environment at the start of the call: os.environ *)
(* holds the snapshot, and the environment block that later processes      *)
(* inherit holds no entry added for the call.                              *)
(***************************************************************************)
C1_EnvironmentRestored ==
    (env_pc = "idle" /\ env_calls > 0) =>
        /\ os_environ.data = org_env
        /\ proc_env = proc_at_start

(***************************************************************************)
(* Locating the ORCA installation: BaseRunner.set_orca_path                *)
(***************************************************************************)
\* one candidate location per source, so that the folders stored tell the
\* source they come from
SourceRoots ==
    {"A", "E", "C", "W"}

\* what a candidate location holds on disk
Layouts ==
    {"missing", "bin_lib", "flat"}

\* Path.is_dir / Path.is_file / Path.exists on a path below a candidate location
is_dir(disk, p) ==
    /\ Len(p) >= 1
    /\ \/ Len(p) = 1 /\ disk[p[1]] \in {"bin_lib", "bin_nolib", "flat"}
       \/ p = <<p[1], "bin">> /\ disk[p[1]] \in {"bin_lib", "bin_nolib"}
       \/ p = <<p[1], "lib">> /\ disk[p[1]] = "bin_lib"

is_file(disk, p) ==
    /\ Len(p) >= 1
    /\ \/ p = <<p[1], "bin", "orca">> /\ disk[p[1]] \in {"bin_lib", "bin_nolib"}
       \/ p = <<p[1], "orca">> /\ disk[p[1]] = "flat"

exists(disk, p) ==
    is_dir(disk, p) \/ is_file(disk, p)

\* Path.name, Path.parent, Path.with_name
name(p) ==
    p[Len(p)]

parent(p) ==
    SubSeq(p, 1, Len(p) - 1)

with_name(p, n) ==
    parent(p) \o <<n>>

\* Path(text): the components of a text written by str
PathOf(s) ==
    SelectSeq(s, LAMBDA a : a # "/")

Raised(exc, self) ==
    [exc |-> exc, bin |-> self.bin, lib |-> self.lib]

\* BaseRunner._determine_orca_paths, followed by the assignment of its result
determine_orca_paths(disk, self, orca_path) ==
    IF ~exists(disk, orca_path) THEN Raised("FileNotFoundError", self)
    ELSE
      LET case1 == is_file(disk, orca_path) /\ name(orca_path) = "orca"
          case2 == is_dir(disk, orca_path)
          orca_bin_folder ==
              IF case1 THEN parent(orca_path)
              ELSE IF exists(disk, orca_path \o <<"bin">>) THEN orca_path \o <<"bin">>
              ELSE orca_path
          orca_lib_folder ==
              IF case1
              THEN IF name(parent(orca_path)) = "bin"
                   THEN with_name(orca_bin_folder, "lib") ELSE orca_bin_folder
              ELSE IF exists(disk, orca_path \o <<"bin">>) THEN orca_path \o <<"lib">>
              ELSE orca_path
      IN  IF ~case1 /\ ~case2 THEN Raised("RuntimeError: invalid", self)
          ELSE IF ~is_dir(disk, orca_bin_folder) THEN Raised("FileNotFoundError", self)
          ELSE IF orca_bin_folder # orca_lib_folder /\ ~is_dir(disk, orca_lib_folder)
               THEN Raised("FileNotFoundError", self)
          ELSE [exc |-> "none", bin |-> orca_bin_folder, lib |-> orca_lib_folder]

\* the mutant of set_orca_path: the config file is asked before $OPI_ORCA
set_orca_path_config_first(disk, self, orca_path, environ, config, which) ==
    LET orca_path_config == IF config.exists THEN env_get(config, "ORCA_PATH") ELSE <<>>
        opi_var_orca_path == env_get(environ, "OPI_ORCA")
    IN  IF orca_path.type # "None"
        THEN IF orca_path.type # "Path" THEN Raised("TypeError", self)
             ELSE determine_orca_paths(disk, self, orca_path.path)
        ELSE IF orca_path_config # <<>>
             THEN determine_orca_paths(disk, self, PathOf(orca_path_config))
        ELSE IF opi_var_orca_path # <<>>
             THEN determine_orca_paths(disk, self, PathOf(opi_var_orca_path))
        ELSE IF which # <<>> THEN determine_orca_paths(disk, self, PathOf(which))
        ELSE Raised("RuntimeError: Could not find ORCA", self)

\* BaseRunner.set_orca_path: the exception raised ("none" when it returns) and
\* the folders stored afterwards.  config is the result of get_config(), which
\* the result of shutil.which("orca")
set_orca_path(disk, self, orca_path, environ, config, which) ==
    LET orca_path_config == IF config.exists THEN env_get(config, "ORCA_PATH") ELSE <<>>
        opi_var_orca_path == env_get(environ, "OPI_ORCA")
    IN  IF orca_path.type # "None"
        THEN IF orca_path.type # "Path" THEN Raised("TypeError", self)
             ELSE determine_orca_paths(disk, self, orca_path.path)
        ELSE IF opi_var_orca_path # <<>>
             THEN determine_orca_paths(disk, self, PathOf(opi_var_orca_path))
        ELSE IF orca_path_config # <<>>
             THEN determine_orca_paths(disk, self, PathOf(orca_path_config))
        ELSE IF which # <<>> THEN determine_orca_paths(disk, self, PathOf(which))
        ELSE Raised("RuntimeError: Could not find ORCA", self)

\* the argument: None, a text instead of a Path, or the main folder
Arguments ==
    { [type |-> "None", path |-> None], [type |-> "str", path |-> <<"A">>],
      [type |-> "Path", path |-> <<"A">>] }

\* $OPI_ORCA: unset, empty, or the binary itself
EnvSettings ==
    { Unset, Value(<<>>), Value(str(<<"E", "bin", "orca">>)) }

\* get_config(): no config, or one without the entry, with an empty entry, or
\* with the main folder as entry
Configs ==
    { [exists |-> FALSE, ORCA_PATH |-> Unset], [exists |-> TRUE, ORCA_PATH |-> Unset],
      [exists |-> TRUE, ORCA_PATH |-> Value(<<>>)],
      [exists |-> TRUE, ORCA_PATH |-> Value(str(<<"C">>))] }

\* shutil.which("orca") names an existing file called orca, or is None
WhichResults(disk) ==
    {<<>>} \cup {str(p) : p \in {q \in {<<"W", "bin", "orca">>, <<"W", "orca">>} : is_file(disk, q)}}

EnvIdle ==
    /\ proc_env = [n \in EnvNames |-> Unset]
    /\ os_environ = [kind |-> "Environ", data |-> proc_env]
    /\ org_env = proc_env
    /\ proc_at_start = proc_env
    /\ env_pc = "idle"
    /\ env_calls = 0
    /\ spawned = <<>>

PathInit ==
    /\ install \in [SourceRoots -> Layouts]
    /\ orca_folders = [bin |-> None, lib |-> None]
    /\ path_call = NotCalled

PathInitAll ==
    PathInit /\ EnvIdle /\ RunIdle /\ ObjIdle /\ XyzIdle /\ IoIdle /\ LineIdle /\ VerIdle /\ BlockIdle /\ TextIdle

\* the user exports, changes or removes $OPI_ORCA
SetOpiOrca ==
    /\ \E v \in EnvSettings :
          /\ v # os_environ.data["OPI_ORCA"]
          /\ os_environ' = [os_environ EXCEPT !.data["OPI_ORCA"] = v]
          /\ proc_env' = [proc_env EXCEPT !["OPI_ORCA"] = v]
    /\ UNCHANGED <<pathVars, exceptPath>>

\* runner.set_orca_path(orca_path)
SetOrcaPath ==
    /\ \E orca_path \in Arguments, config \in Configs, which \in WhichResults(install) :
          LET r == set_orca_path(install, orca_folders, orca_path,
                                 os_environ.data, config, which)
          IN  /\ orca_folders' = [bin |-> r.bin, lib |-> r.lib]
              /\ path_call' = [arg |-> orca_path, env |-> os_environ.data["OPI_ORCA"],
                               config |-> config, which |-> which, exc |-> r.exc,
                               stored |-> orca_folders' # orca_folders]
    /\ UNCHANGED <<install, os_environ, proc_env, exceptPath>>

PathNext ==
    \/ SetOpiOrca
    \/ SetOrcaPath

SpecPath ==
    PathInitAll /\ [][PathNext]_vars

\* the candidate location of the first source that is set, "" when none is
FirstSetSource(c) ==
    IF c.arg.type # "None" THEN "A"
    ELSE IF c.env.isset /\ c.env.val # <<>> THEN "E"
    ELSE IF c.config.exists /\ c.config.ORCA_PATH.isset /\ c.config.ORCA_PATH.val # <<>>
         THEN "C"
    ELSE IF c.which # <<>> THEN "W"
    ELSE ""

(***************************************************************************)
(* C2: set_orca_path takes the location from the first source that is set, *)
(* in the order argument, $OPI_ORCA, config entry ORCA_PATH, orca on the   *)
(* PATH: the folders it stores lie below the location of that source and   *)
(* of no other; a call that raises, among them the call with no source     *)
(* set, which raises RuntimeError, leaves the stored folders unchanged.    *)
(***************************************************************************)
C2_SourcePriority ==
    path_call # NotCalled =>
        LET src == FirstSetSource(path_call)
        IN  /\ (src = "") <=> (path_call.exc = "RuntimeError: Could not find ORCA")
            /\ path_call.exc # "none" => ~path_call.stored
            /\ path_call.exc = "none" =>
                  /\ orca_folders.bin # None
                  /\ orca_folders.bin[1] = src
                  /\ orca_folders.lib[1] = src

\* a call that takes the location from the config file while $OPI_ORCA is
\* empty and orca is also on the PATH
C2_Witness ==
    /\ path_call # NotCalled
    /\ path_call.exc = "none"
    /\ FirstSetSource(path_call) = "C"
    /\ path_call.env = Value(<<>>)
    /\ path_call.which # <<>>
    /\ orca_folders = [bin |-> <<"C", "bin">>, lib |-> <<"C", "lib">>]

(***************************************************************************)
(* Running ORCA: Calculator.run, Runner.run_orca, BaseRunner.run           *)
(***************************************************************************)
Dirs ==
    {<<"d1">>, <<"d2">>}

\* basenames, as the dot-separated parts of the text
Basenames ==
    {<<"job">>, <<"job", "v2">>}

\* the line ORCA prints at the end of a successful run
Marker ==
    "ORCA TERMINATED NORMALLY"

\* directory / f"{basename}.{suffix}"
File(dir, basename, suffix) ==
    [dir |-> dir, name |-> basename \o suffix]

\* Path.with_suffix: the last dot-separated part of the name is replaced
with_suffix(path, suffix) ==
    [path EXCEPT !.name = IF Len(@) > 1 THEN SubSeq(@, 1, Len(@) - 1) \o suffix
                          ELSE @ \o suffix]

\* the file opened for appending
open_a(files, path) ==
    IF path \in DOMAIN files THEN files ELSE (path :> <<>>) @@ files

\* Path.open("w"): the file is created or truncated
open_w(files, path) ==
    (path :> <<>>) @@ files

\* what the process writes to an open dump
written(files, path, lines) ==
    (path :> files[path] \o lines) @@ files

\* opi.utils.misc.delete_empty_file
delete_empty_file(files, file) ==
    IF file \in DOMAIN files /\ Len(files[file]) = 0
    THEN [q \in DOMAIN files \ {file} |-> files[q]]
    ELSE files

\* Output(basename, working_dir).terminated_normally(): the log holds the marker
terminated_normally(files, basename, working_dir) ==
    LET outfile == File(working_dir, basename, <<"out">>)
    IN  outfile \in DOMAIN files /\ \E i \in 1..Len(files[outfile]) : files[outfile][i] = Marker

\* the mutant of subprocess_timeout: a timeout of 0 counts as a limit
subprocess_timeout_zero(timeout) ==
    IF timeout >= 0 THEN timeout ELSE -1

\* timeout=timeout if timeout > 0 else None; -1 stands for None
subprocess_timeout(timeout) ==
    IF timeout > 0 THEN timeout ELSE -1

\* the mutant of arguments: the extra arguments are dropped
arguments_name_only(inpfile, extra_args) ==
    <<inpfile.name>>

\* Runner.run_orca: arguments = [inpfile.name] + list(extra_args)
arguments(inpfile, extra_args) ==
    <<inpfile.name>> \o extra_args

\* the mutant of completed: subprocess.run(..., check=True)
completed_check(returncode) ==
    IF returncode = 0 THEN "returned" ELSE "CalledProcessError"

\* subprocess.run without check: the CompletedProcess is returned whatever
\* the exit status
completed(returncode) ==
    "returned"

\* a call of run_orca: who made it, with what, and the files before it
Call(caller, inpfile, extra_args, timeout) ==
    [caller |-> caller, inpfile |-> inpfile, extra_args |-> extra_args,
     requested |-> timeout, timeout |-> subprocess_timeout(timeout), elapsed |-> 0,
     fs_before |-> fs]

\* how a call ended: the exception that reached the caller ("returned" when
\* none did), the value returned, and what the process did
Ended(call, outcome, value, returncode, out) ==
    [call |-> call, outcome |-> outcome, value |-> value, exit |-> returncode,
     out |-> out]

\* Runner.run_orca up to the launch of the process by BaseRunner.run
Begin(caller, working_dir, inpfile, extra_args, timeout, binary_is_file) ==
    LET outfile == with_suffix(inpfile, <<"out">>)
        errfile == with_suffix(inpfile, <<"err">>)
        call    == Call(caller, inpfile, extra_args, timeout)
    IN  /\ run_calls' = run_calls + 1
        /\ IF inpfile \notin DOMAIN fs
           THEN /\ last' = Ended(call, "FileNotFoundError: input", "none", -1, <<>>)
                /\ launches' = <<>>
                /\ UNCHANGED <<fs, cur>>
           ELSE IF ~binary_is_file
           THEN /\ last' = Ended(call, "FileNotFoundError: binary", "none", -1, <<>>)
                /\ launches' = <<>>
                /\ UNCHANGED <<fs, cur>>
           ELSE /\ fs' = open_w(open_w(fs, outfile), errfile)
                /\ launches' = <<[cmd |-> <<"orca">> \o arguments(inpfile, extra_args),
                                  stdout |-> outfile, stderr |-> errfile,
                                  cwd |-> working_dir]>>
                /\ cur' = call
                /\ last' = NoCall

Timeouts ==
    {-1, 0, 1}

\* Calculator.run(timeout=...)
CalcRun ==
    /\ cur = NoCall
    /\ run_calls < MaxRunCalls
    /\ \E timeout \in Timeouts, binary_is_file \in BOOLEAN :
          IF calc.inpfile = None
          THEN /\ last' = Ended(Call("calc", None, <<>>, timeout), "AssertionError",
                                "none", -1, <<>>)
               /\ launches' = <<>>
               /\ run_calls' = run_calls + 1
               /\ UNCHANGED <<fs, cur>>
          ELSE Begin("calc", calc.working_dir, calc.inpfile, <<>>, timeout, binary_is_file)
    /\ UNCHANGED <<calc, exceptRun>>

\* Runner(working_dir).run_orca(inpfile, *extra_args, timeout=...)
RunOrca ==
    /\ cur = NoCall
    /\ run_calls < MaxRunCalls
    /\ \E working_dir \in Dirs, d \in Dirs, b \in Basenames,
          extra_args \in {<<>>, <<"-a", "-b">>}, timeout \in Timeouts,
          binary_is_file \in BOOLEAN :
          Begin("runner", working_dir, File(d, b, <<"inp">>), extra_args, timeout,
                binary_is_file)
    /\ UNCHANGED <<calc, exceptRun>>

\* a second passes while subprocess.run waits for the process
Tick ==
    /\ cur # NoCall
    /\ cur.elapsed < MaxElapsed
    /\ cur.timeout < 0 \/ cur.elapsed < cur.timeout
    /\ cur' = [cur EXCEPT !.elapsed = @ + 1]
    /\ UNCHANGED <<fs, calc, launches, last, run_calls, exceptRun>>

\* the finally block of BaseRunner.run
delete_empty_dumps(files, proc) ==
    delete_empty_file(delete_empty_file(files, proc.stdout), proc.stderr)

\* the process ends: subprocess.run returns, the empty dumps are deleted,
\* run_orca returns and Calculator.run asks the Output for the termination
ProcessExit ==
    /\ cur # NoCall
    /\ \E returncode \in {0, 1}, out \in {<<>>, <<"text">>, <<"text", Marker>>},
          err \in {<<>>, <<"error">>} :
          LET proc == launches[1]
              fs1 == written(written(fs, proc.stdout, out), proc.stderr, err)
              fs2 == delete_empty_dumps(fs1, proc)
              outcome == completed(returncode)
              value == IF cur.caller = "calc" /\ outcome = "returned"
                       THEN IF terminated_normally(fs2, calc.basename, calc.working_dir)
                            THEN "True" ELSE "False"
                       ELSE "none"
          IN  /\ fs' = fs2
              /\ last' = Ended(cur, outcome, value, returncode, out)
    /\ cur' = NoCall
    /\ UNCHANGED <<calc, launches, run_calls, exceptRun>>

\* the time limit passes before the process ends: subprocess.run kills the
\* process and raises TimeoutExpired, which run, run_orca and Calculator.run
\* let through
TimeoutExpires ==
    /\ cur # NoCall
    /\ cur.timeout >= 0
    /\ cur.elapsed >= cur.timeout
    /\ \E out \in {<<>>, <<"text">>} :
          /\ fs' = delete_empty_dumps(written(fs, launches[1].stdout, out), launches[1])
          /\ last' = Ended(cur, "TimeoutExpired", "none", -1, out)
    /\ cur' = NoCall
    /\ UNCHANGED <<calc, launches, run_calls, exceptRun>>

\* a Calculator after any number of write_input calls and reassignments of
\* basename and working_dir, with input files and an old log on disk
RunInit ==
    /\ \E inps \in SUBSET {File(<<"d1">>, <<"job">>, <<"inp">>),
                           File(<<"d2">>, <<"job", "v2">>, <<"inp">>)},
          logs \in SUBSET {File(<<"d1">>, <<"job">>, <<"out">>)} :
          fs = [f \in inps \cup logs |-> IF f \in inps THEN <<"input">>
                                           ELSE <<"text", Marker>>]
    /\ \E b \in Basenames, d \in Dirs,
          inpfile \in {None, File(<<"d1">>, <<"job">>, <<"inp">>),
                       File(<<"d2">>, <<"job", "v2">>, <<"inp">>)} :
          calc = [basename |-> b, working_dir |-> d, inpfile |-> inpfile]
    /\ cur = NoCall
    /\ launches = <<>>
    /\ last = NoCall
    /\ run_calls = 0

RunInitAll ==
    RunInit /\ EnvIdle /\ PathIdle /\ ObjIdle /\ XyzIdle /\ IoIdle /\ LineIdle /\ VerIdle /\ BlockIdle /\ TextIdle

RunNext ==
    \/ CalcRun
    \/ RunOrca
    \/ Tick
    \/ ProcessExit
    \/ TimeoutExpires

SpecRun ==
    RunInitAll /\ [][RunNext]_vars

(***************************************************************************)
(* Regenerating the JSON files: Runner.create_gbw_json,                    *)
(* create_property_json, create_jsons                                      *)
(***************************************************************************)
\* Path.cwd(): the directory a relative path is resolved against
Cwd ==
    <<"d1">>

\* Path.unlink(missing_ok=True)
unlink(files, path) ==
    [q \in DOMAIN files \ {path} |-> files[q]]

\* Runner.format_gbw_json_config: "" for None and {}, else the JSON text
format_gbw_json_config(config) ==
    IF config = <<>> THEN <<>> ELSE <<"{">> \o config \o <<"}">>

\* orca_2json, as BaseRunner.run launches it in cwd: with a .gbw file it
\* writes the .json next to it, following the .json.conf found there; with
\* <basename> -property it writes <basename>.property.json in cwd
orca_2json(files, cwd, args, started, converts) ==
    LET target == IF Len(args) = 1 THEN with_suffix(args[1], <<"json">>)
                  ELSE File(cwd, args[1], <<"property", "json">>)
        conf   == with_suffix(target, <<"json", "conf">>)
        text   == IF Len(args) = 1
                  THEN <<"json">> \o (IF conf \in DOMAIN files THEN files[conf] ELSE <<>>)
                  ELSE <<"property json">>
    IN  [files  |-> IF started /\ converts THEN (target :> text) @@ files ELSE files,
         launch |-> [cmd |-> <<"orca_2json">> \o args, cwd |-> cwd, started |-> started,
                     conf |-> IF Len(args) = 1 /\ conf \in DOMAIN files
                              THEN files[conf] ELSE <<"absent">>,
                     found |-> target \in DOMAIN files]]

\* Runner.run_orca_2json: the files and the invocations afterwards, and the
\* exception raised; the binary is started when get_orca_binary finds it
run_orca_2json(st, working_dir, args, binary_is_file, converts) ==
    LET r == orca_2json(st.files, working_dir, args, binary_is_file, converts)
    IN  IF st.exc # "none" THEN st
        ELSE [files |-> r.files, launches |-> Append(st.launches, r.launch),
              exc |-> IF binary_is_file THEN "none" ELSE "FileNotFoundError"]

\* the mutant of delete_old_json: the control file is left in place
delete_old_json_keep_conf(files, gbw_json_file, config_file) ==
    unlink(files, gbw_json_file)

\* create_gbw_json: gbw_json_file.unlink(missing_ok=True) and
\* config_file.unlink(missing_ok=True)
delete_old_json(files, gbw_json_file, config_file) ==
    unlink(unlink(files, gbw_json_file), config_file)

\* Runner.create_gbw_json
create_gbw_json(st, working_dir, basename, force, config, binary_is_file, converts) ==
    LET gbw_json_file == File(working_dir, basename, <<"json">>)
        config_file   == with_suffix(gbw_json_file, <<"json", "conf">>)
        config_fmt    == format_gbw_json_config(config)
        deleted       == delete_old_json(st.files, gbw_json_file, config_file)
        prepared      == IF config_fmt # <<>> THEN (config_file :> config_fmt) @@ deleted
                         ELSE deleted
    IN  IF st.exc # "none" THEN st
        ELSE IF gbw_json_file \in DOMAIN st.files /\ ~force THEN st
        ELSE run_orca_2json([st EXCEPT !.files = prepared], working_dir,
                            <<with_suffix(gbw_json_file, <<"gbw">>)>>,
                            binary_is_file, converts)

\* Runner.create_property_json: Path(f"{basename}.property.json") is a
\* relative path, which is_file and unlink resolve against Path.cwd()
create_property_json(st, working_dir, basename, force, binary_is_file, converts) ==
    LET property_json_file == File(Cwd, basename, <<"property", "json">>)
    IN  IF st.exc # "none" THEN st
        ELSE IF property_json_file \in DOMAIN st.files /\ ~force THEN st
        ELSE run_orca_2json([st EXCEPT !.files = unlink(@, property_json_file)],
                            working_dir, <<basename, "-property">>,
                            binary_is_file, converts)

JsonConfigs ==
    {<<>>, <<"MOCoefficients">>}

\* how a call of one of the three operations ended
JsonEnded(op, force, config, st) ==
    [op |-> op, force |-> force, config |-> config, exc |-> st.exc, fs_before |-> fs]

\* Runner(calc.working_dir).create_gbw_json(calc.basename, force=, config=)
CreateGbwJson ==
    /\ run_calls < MaxJsonCalls
    /\ \E force \in BOOLEAN, config \in JsonConfigs, binary_is_file \in BOOLEAN,
          converts \in BOOLEAN :
          LET st == create_gbw_json([files |-> fs, launches |-> <<>>, exc |-> "none"],
                                    calc.working_dir, calc.basename, force, config,
                                    binary_is_file, converts)
          IN  /\ fs' = st.files
              /\ launches' = st.launches
              /\ last' = JsonEnded("create_gbw_json", force, config, st)
    /\ run_calls' = run_calls + 1
    /\ UNCHANGED <<calc, cur, exceptRun>>

\* Runner(calc.working_dir).create_property_json(calc.basename, force=)
CreatePropertyJson ==
    /\ run_calls < MaxJsonCalls
    /\ \E force \in BOOLEAN, binary_is_file \in BOOLEAN, converts \in BOOLEAN :
          LET st == create_property_json([files |-> fs, launches |-> <<>>, exc |-> "none"],
                                         calc.working_dir, calc.basename, force,
                                         binary_is_file, converts)
          IN  /\ fs' = st.files
              /\ launches' = st.launches
              /\ last' = JsonEnded("create_property_json", force, <<>>, st)
    /\ run_calls' = run_calls + 1
    /\ UNCHANGED <<calc, cur, exceptRun>>

\* Runner.create_jsons, also reached by Calculator.create_jsons (config None)
CreateJsons ==
    /\ run_calls < MaxJsonCalls
    /\ \E force \in BOOLEAN, config \in JsonConfigs, binary_is_file \in BOOLEAN,
          converts \in BOOLEAN :
          LET s1 == create_gbw_json([files |-> fs, launches |-> <<>>, exc |-> "none"],
                                    calc.working_dir, calc.basename, force, config,
                                    binary_is_file, converts)
              s2 == create_property_json(s1, calc.working_dir, calc.basename, force,
                                         binary_is_file, converts)
          IN  /\ fs' = s2.files
              /\ launches' = s2.launches
              /\ last' = JsonEnded("create_jsons", force, config, s2)
    /\ run_calls' = run_calls + 1
    /\ UNCHANGED <<calc, cur, exceptRun>>

\* a runner for a basename and a working directory, with files of earlier
\* runs and conversions on disk
JsonInit ==
    /\ \E b \in Basenames, d \in Dirs :
          /\ calc = [basename |-> b, working_dir |-> d, inpfile |-> None]
          /\ \E old \in SUBSET {File(e, b, x) : e \in Dirs,
                                   x \in {<<"json">>, <<"json", "conf">>,
                                          <<"property", "json">>}} :
                fs = [f \in old |-> <<"old">>]
    /\ cur = NoCall
    /\ launches = <<>>
    /\ last = NoCall
    /\ run_calls = 0

JsonInitAll ==
    JsonInit /\ EnvIdle /\ PathIdle /\ ObjIdle /\ XyzIdle /\ IoIdle /\ LineIdle /\ VerIdle /\ BlockIdle /\ TextIdle

JsonNext ==
    \/ CreateGbwJson
    \/ CreatePropertyJson
    \/ CreateJsons

SpecJson ==
    JsonInitAll /\ [][JsonNext]_vars

(***************************************************************************)
(* C6: create_gbw_json launches nothing and changes no file when           *)
(* <working_dir>/<basename>.json exists and force is not set; otherwise    *)
(* the old .json and .json.conf are gone, a .json.conf exists exactly when *)
(* a non-empty config was given and then holds that config, and the        *)
(* conversion helper is invoked once, seeing no control file but the one   *)
(* of this call.                                                           *)
(***************************************************************************)
C6_GbwJsonRegenerated ==
    (last # NoCall /\ last.op = "create_gbw_json") =>
        LET json == [dir |-> calc.working_dir, name |-> calc.basename \o <<"json">>]
            conf == [dir |-> calc.working_dir, name |-> calc.basename \o <<"json", "conf">>]
            given == IF last.config = <<>> THEN <<"absent">>
                     ELSE <<"{">> \o last.config \o <<"}">>
        IN  IF json \in DOMAIN last.fs_before /\ ~last.force
            THEN launches = <<>> /\ fs = last.fs_before /\ last.exc = "none"
            ELSE /\ Len(launches) = 1
                 /\ launches[1].conf = given
                 /\ ~launches[1].found
                 /\ launches[1].started <=> last.exc = "none"
                 /\ json \in DOMAIN fs => fs[json] # <<"old">>
                 /\ conf \in DOMAIN fs <=> last.config # <<>>
                 /\ conf \in DOMAIN fs => <<conf, fs[conf]>> = <<conf, given>>
                 /\ \A f \in DOMAIN last.fs_before \ {json, conf} :
                        f \in DOMAIN fs /\ fs[f] = last.fs_before[f]

\* a forced regeneration without config over an old .json and an old
\* .json.conf
C6_Witness ==
    /\ last # NoCall
    /\ last.op = "create_gbw_json"
    /\ last.force
    /\ last.config = <<>>
    /\ [dir |-> calc.working_dir, name |-> calc.basename \o <<"json", "conf">>]
           \in DOMAIN last.fs_before
    /\ [dir |-> calc.working_dir, name |-> calc.basename \o <<"json">>]
           \in DOMAIN last.fs_before
    /\ Len(launches) = 1
    /\ launches[1].started
    /\ [dir |-> calc.working_dir, name |-> calc.basename \o <<"json">>] \in DOMAIN fs

(***************************************************************************)
(* C7: create_property_json launches nothing and changes no file when      *)
(* <basename>.property.json exists in the working directory of the runner  *)
(* and force is not set, and otherwise the conversion helper, which runs   *)
(* in that directory, finds no <basename>.property.json there; a call      *)
(* touches no file outside the working directory.                          *)
(***************************************************************************)
C7_PropertyJsonInWorkingDir ==
    (last # NoCall /\ last.op = "create_property_json") =>
        LET pj == [dir |-> calc.working_dir,
                   name |-> calc.basename \o <<"property", "json">>]
        IN  /\ (pj \in DOMAIN last.fs_before /\ ~last.force) =>
                  launches = <<>> /\ fs = last.fs_before
            /\ Len(launches) = 1 => launches[1].cwd = calc.working_dir /\ ~launches[1].found
            /\ \A f \in DOMAIN last.fs_before :
                  f.dir # calc.working_dir => f \in DOMAIN fs /\ fs[f] = last.fs_before[f]

(***************************************************************************)
(* Calculator.basename                                                     *)
(***************************************************************************)
\* the characters a value is made of: a letter, a space and a tab
Chars ==
    {"a", " ", "\t"}

\* the characters str.isspace holds for
Whitespace ==
    {" ", "\t"}

\* the values assigned: strings up to MaxBasenameLen characters, None and
\* an int
BasenameValues ==
    {[type |-> "str", chars |-> c] :
        c \in UNION {[1..n -> Chars] : n \in 0..MaxBasenameLen}}
    \cup {[type |-> t, chars |-> <<>>] : t \in {"NoneType", "int"}}

\* Calculator.basename.setter
basename_setter(self, value) ==
    IF value.type # "str" THEN [self |-> self, exc |-> "TypeError"]
    ELSE IF \E i \in 1..Len(value.chars) : value.chars[i] = " "
    THEN [self |-> self, exc |-> "ValueError"]
    ELSE IF value.chars = <<>> THEN [self |-> self, exc |-> "ValueError"]
    ELSE [self |-> [self EXCEPT !.value = value], exc |-> "none"]

\* Calculator(basename): self._basename = "", then self.basename = basename;
\* when the setter raises no object comes to exist
CalculatorInit ==
    /\ ~Calculator_basename.exists
    /\ \E value \in BasenameValues :
          LET r == basename_setter([exists |-> TRUE,
                                    value |-> [type |-> "str", chars |-> <<>>]], value)
          IN  /\ Calculator_basename' =
                    IF r.exc = "none" THEN r.self ELSE Calculator_basename
              /\ basename_call' = [op |-> "__init__", value |-> value, exc |-> r.exc,
                                   before |-> Calculator_basename]
    /\ UNCHANGED exceptBasename

\* calc.basename = value
SetBasename ==
    /\ Calculator_basename.exists
    /\ \E value \in BasenameValues :
          LET r == basename_setter(Calculator_basename, value)
          IN  /\ Calculator_basename' = r.self
              /\ basename_call' = [op |-> "setter", value |-> value, exc |-> r.exc,
                                   before |-> Calculator_basename]
    /\ UNCHANGED exceptBasename

BasenameInitAll ==
    ObjIdle /\ EnvIdle /\ PathIdle /\ RunIdle /\ XyzIdle /\ IoIdle /\ LineIdle /\ VerIdle /\ BlockIdle /\ TextIdle

BasenameNext ==
    \/ CalculatorInit
    \/ SetBasename

SpecBasename ==
    BasenameInitAll /\ [][BasenameNext]_vars

(***************************************************************************)
(* C8: assigning Calculator.basename raises TypeError for a value that is  *)
(* not a string and ValueError for an empty string or a string containing  *)
(* whitespace; a rejected assignment leaves the stored basename as it was, *)
(* and the basename of a constructed Calculator is always a non-empty      *)
(* string without whitespace.                                              *)
(***************************************************************************)
C8_BasenameValidated ==
    /\ basename_call # NoCall =>
          LET v == basename_call.value
          IN  /\ v.type # "str" => basename_call.exc = "TypeError"
              /\ (v.type = "str" /\ (v.chars = <<>> \/
                     \E i \in DOMAIN v.chars : v.chars[i] \in Whitespace))
                    => basename_call.exc = "ValueError"
              /\ basename_call.exc # "none" =>
                    Calculator_basename = basename_call.before
    /\ Calculator_basename.exists =>
          /\ Calculator_basename.value.type = "str"
          /\ Calculator_basename.value.chars # <<>>
          /\ \A i \in DOMAIN Calculator_basename.value.chars :
                Calculator_basename.value.chars[i] \notin Whitespace

(***************************************************************************)
(* Input: simple keywords and blocks                                       *)
(***************************************************************************)
\* Method.HF, SimpleKeyword("ex") and the plain string "HF"
Keywords ==
    {[type |-> "SimpleKeyword", keyword |-> "hf"],
     [type |-> "SimpleKeyword", keyword |-> "ex"],
     [type |-> "str", keyword |-> "HF"]}

\* str.lower on the texts of Keywords
lower ==
    ("hf" :> "hf") @@ ("HF" :> "hf") @@ ("ex" :> "ex")

BlockTypes ==
    {"BlockMethod", "BlockScf"}

\* BlockMethod(), BlockMethod(d3s6=0.64) and BlockScf()
Blocks ==
    {[type |-> "BlockMethod", settings |-> <<>>],
     [type |-> "BlockMethod", settings |-> <<"d3s6">>],
     [type |-> "BlockScf", settings |-> <<>>]}

\* the argument tuples of one operation
Items(S) ==
    UNION {[1..n -> S] : n \in 1..MaxItems}

\* the mutant of keyword_eq: the texts are compared as they are
keyword_eq_exact(a, b) ==
    a.keyword = b.keyword

\* equality of two keywords: their texts, ignoring case
keyword_eq(a, b) ==
    lower[a.keyword] = lower[b.keyword]

has_keyword(inp, k) ==
    \E i \in 1..Len(inp.simple_keywords) : keyword_eq(inp.simple_keywords[i], k)

\* the mutant of block_matches: the stored instance is compared
block_matches_instance(p, block) ==
    p[2] = block

\* a stored (type, instance) entry is the one of the type of block
block_matches(p, block) ==
    p[1] = block.type

\* dict: key in d, d[key] = value, del d[key]
dict_has(d, key) ==
    \E p \in d : p[1] = key

dict_set(d, key, value) ==
    {p \in d : p[1] # key} \cup {<<key, value>>}

Returned(inp, exc, result) ==
    [input |-> inp, exc |-> exc, result |-> result]

RECURSIVE add_simple_keywords(_, _, _)
\* Input.add_simple_keywords(*items, strict=)
add_simple_keywords(inp, items, strict) ==
    IF items = <<>> THEN Returned(inp, "none", <<>>)
    ELSE IF ~has_keyword(inp, Head(items))
    THEN add_simple_keywords([inp EXCEPT !.simple_keywords = Append(@, Head(items))],
                             Tail(items), strict)
    ELSE IF strict THEN Returned(inp, "ValueError", <<>>)
    ELSE add_simple_keywords(inp, Tail(items), strict)

RECURSIVE remove_simple_keywords(_, _, _)
\* Input.remove_simple_keywords(*items, strict=)
remove_simple_keywords(inp, items, strict) ==
    IF items = <<>> THEN Returned(inp, "none", <<>>)
    ELSE IF has_keyword(inp, Head(items))
    THEN remove_simple_keywords(
             [inp EXCEPT !.simple_keywords =
                 SelectSeq(@, LAMBDA s : ~keyword_eq(s, Head(items)))],
             Tail(items), strict)
    ELSE IF strict THEN Returned(inp, "ValueError", <<>>)
    ELSE remove_simple_keywords(inp, Tail(items), strict)

\* Input.clear_simple_keywords(strict=)
clear_simple_keywords(inp, strict) ==
    IF strict /\ inp.simple_keywords = <<>> THEN Returned(inp, "ValueError", <<>>)
    ELSE Returned([inp EXCEPT !.simple_keywords = <<>>], "none", <<>>)

\* Input.has_simple_keywords(*items)
has_simple_keywords(inp, items) ==
    [i \in 1..Len(items) |-> has_keyword(inp, items[i])]

\* Input.get_simple_keywords(*items, create_missing=): the stored keywords
\* that match, after the missing ones were added
get_simple_keywords(inp, items, create_missing) ==
    LET after == IF create_missing THEN add_simple_keywords(inp, items, FALSE).input
                 ELSE inp
    IN  Returned(after, "none",
                 SelectSeq(after.simple_keywords,
                           LAMBDA s : \E i \in 1..Len(items) : keyword_eq(s, items[i])))

\* the mutant of on_duplicate: without strict the stored block is kept
\* and nothing is raised
on_duplicate_keep(mode) ==
    IF mode = "overwrite" THEN "replace"
    ELSE IF mode = "strict" THEN "raise" ELSE "keep"

\* what add_blocks does with a block whose type is present: it raises
\* unless overwrite is set
on_duplicate(mode) ==
    IF mode = "overwrite" THEN "replace" ELSE "raise"

RECURSIVE add_blocks(_, _, _)
\* Input.add_blocks(*items, strict=, overwrite=); mode is the flag set
add_blocks(inp, items, mode) ==
    IF items = <<>> THEN Returned(inp, "none", <<>>)
    ELSE IF ~dict_has(inp.blocks, Head(items).type) \/ on_duplicate(mode) = "replace"
    THEN add_blocks([inp EXCEPT !.blocks = dict_set(@, Head(items).type, Head(items))],
                    Tail(items), mode)
    ELSE IF on_duplicate(mode) = "raise" THEN Returned(inp, "ValueError", <<>>)
    ELSE add_blocks(inp, Tail(items), mode)

RECURSIVE remove_blocks(_, _, _)
\* Input.remove_blocks(*items, strict=)
remove_blocks(inp, items, strict) ==
    IF items = <<>> THEN Returned(inp, "none", <<>>)
    ELSE IF dict_has(inp.blocks, Head(items).type)
    THEN remove_blocks([inp EXCEPT !.blocks = {p \in @ : ~block_matches(p, Head(items))}],
                       Tail(items), strict)
    ELSE IF strict THEN Returned(inp, "ValueError", <<>>)
    ELSE remove_blocks(inp, Tail(items), strict)

\* Input.clear_blocks(strict=)
clear_blocks(inp, strict) ==
    IF strict /\ inp.blocks = {} THEN Returned(inp, "ValueError", <<>>)
    ELSE Returned([inp EXCEPT !.blocks = {}], "none", <<>>)

\* Input.has_blocks(*items)
has_blocks(inp, items) ==
    [i \in 1..Len(items) |-> dict_has(inp.blocks, items[i].type)]

\* the mutant of returned_block: get_blocks hands out a copy
returned_copy(p) ==
    [ref |-> "copy", type |-> p[1], block |-> p[2]]

\* an entry of the dict get_blocks returns: the stored instance itself
returned_block(p) ==
    [ref |-> "stored", type |-> p[1], block |-> p[2]]

\* block.<field> = value on a block get_blocks returned: the Input sees it
\* when the block is its stored instance
set_field(inp, returned, block) ==
    IF returned.ref = "stored"
    THEN [inp EXCEPT !.blocks = dict_set(@, returned.type, block)]
    ELSE inp

\* Input.get_blocks(*types, create_missing=): the entries of these types,
\* after a default instance was added for each missing one
get_blocks(inp, types, create_missing) ==
    LET missing  == {types[i] : i \in 1..Len(types)} \ {p[1] : p \in inp.blocks}
        defaults == {<<t, [type |-> t, settings |-> <<>>]>> : t \in missing}
        after    == IF create_missing THEN [inp EXCEPT !.blocks = @ \cup defaults]
                    ELSE inp
    IN  Returned(after, "none",
                 {returned_block(p) :
                     p \in {q \in after.blocks : \E i \in 1..Len(types) : q[1] = types[i]}})

RECURSIVE affected(_, _, _, _)
\* what last happened to each key, after an operation given the keys of
\* its items: an addition that raises and a removal that raises stop there
affected(h, op, keys, strict) ==
    IF keys = <<>> THEN h
    ELSE IF op = "add"
    THEN IF h[Head(keys)] = "added" /\ strict THEN h
         ELSE affected([h EXCEPT ![Head(keys)] = "added"], op, Tail(keys), strict)
    ELSE IF h[Head(keys)] # "added" /\ strict THEN h
         ELSE affected([h EXCEPT ![Head(keys)] = "absent"], op, Tail(keys), strict)

\* what last happened to each key, after a clear
cleared(h, strict) ==
    IF strict /\ \A k \in DOMAIN h : h[k] # "added" THEN h
    ELSE [k \in DOMAIN h |-> "absent"]

\* the last operation: its name and the exception raised, and for a query
\* its items and what it returned
InputCall(op, items, r) ==
    [op |-> op, items |-> items, exc |-> r.exc, result |-> r.result,
     changed |-> r.input # input]

AddSimpleKeywords ==
    /\ \E items \in Items(Keywords), strict \in BOOLEAN :
          LET r == add_simple_keywords(input, items, strict)
          IN  /\ input' = r.input
              /\ input_call' = InputCall("add_simple_keywords", <<>>, r)
              /\ input_hist' = [input_hist EXCEPT !.kw =
                    affected(@, "add", [i \in DOMAIN items |-> lower[items[i].keyword]],
                             strict)]
    /\ UNCHANGED exceptInput

RemoveSimpleKeywords ==
    /\ \E items \in Items(Keywords), strict \in BOOLEAN :
          LET r == remove_simple_keywords(input, items, strict)
          IN  /\ input' = r.input
              /\ input_call' = InputCall("remove_simple_keywords", <<>>, r)
              /\ input_hist' = [input_hist EXCEPT !.kw =
                    affected(@, "remove", [i \in DOMAIN items |-> lower[items[i].keyword]],
                             strict)]
    /\ UNCHANGED exceptInput

ClearSimpleKeywords ==
    /\ \E strict \in BOOLEAN :
          LET r == clear_simple_keywords(input, strict)
          IN  /\ input' = r.input
              /\ input_call' = InputCall("clear_simple_keywords", <<>>, r)
              /\ input_hist' = [input_hist EXCEPT !.kw = cleared(@, strict)]
    /\ UNCHANGED exceptInput

GetSimpleKeywords ==
    /\ \E items \in Items(Keywords), create_missing \in BOOLEAN :
          LET r == get_simple_keywords(input, items, create_missing)
          IN  /\ input' = r.input
              /\ input_call' = InputCall("get_simple_keywords", items, r)
              /\ input_hist' = IF create_missing
                    THEN [input_hist EXCEPT !.kw =
                            affected(@, "add",
                                     [i \in DOMAIN items |-> lower[items[i].keyword]], FALSE)]
                    ELSE input_hist
    /\ UNCHANGED exceptInput

HasSimpleKeywords ==
    /\ \E items \in Items(Keywords) :
          input_call' = InputCall("has_simple_keywords", items,
                                  Returned(input, "none", has_simple_keywords(input, items)))
    /\ UNCHANGED <<input, input_hist, exceptInput>>

AddBlocks ==
    /\ \E items \in Items(Blocks), mode \in {"plain", "strict", "overwrite"} :
          LET r == add_blocks(input, items, mode)
          IN  /\ input' = r.input
              /\ input_call' = InputCall("add_blocks", <<>>, r)
              /\ input_hist' = [input_hist EXCEPT !.blk =
                    affected(@, "add", [i \in DOMAIN items |-> items[i].type],
                             mode # "overwrite")]
    /\ UNCHANGED exceptInput

RemoveBlocks ==
    /\ \E items \in Items(Blocks), strict \in BOOLEAN :
          LET r == remove_blocks(input, items, strict)
          IN  /\ input' = r.input
              /\ input_call' = InputCall("remove_blocks", <<>>, r)
              /\ input_hist' = [input_hist EXCEPT !.blk =
                    affected(@, "remove", [i \in DOMAIN items |-> items[i].type], strict)]
    /\ UNCHANGED exceptInput

ClearBlocks ==
    /\ \E strict \in BOOLEAN :
          LET r == clear_blocks(input, strict)
          IN  /\ input' = r.input
              /\ input_call' = InputCall("clear_blocks", <<>>, r)
              /\ input_hist' = [input_hist EXCEPT !.blk = cleared(@, strict)]
    /\ UNCHANGED exceptInput

GetBlocks ==
    /\ \E types \in Items(BlockTypes), create_missing \in BOOLEAN :
          LET r == get_blocks(input, types, create_missing)
          IN  /\ input' = r.input
              /\ input_call' = InputCall("get_blocks", types, r)
              /\ input_hist' = IF create_missing
                    THEN [input_hist EXCEPT !.blk = affected(@, "add", types, FALSE)]
                    ELSE input_hist
    /\ UNCHANGED exceptInput

\* a field of a block returned by the get_blocks call just made is set,
\* as Calculator._set_json_output_block does
SetReturnedBlock ==
    /\ input_call # NoCall
    /\ input_call.op = "get_blocks"
    /\ \E returned \in input_call.result :
          \E block \in {b \in Blocks : b.type = returned.type} :
             /\ input' = set_field(input, returned, block)
             /\ input_call' = [op |-> "set_returned_block", items |-> <<>>, exc |-> "none",
                               result |-> block, changed |-> input' # input]
    /\ UNCHANGED <<input_hist, exceptInput>>

HasBlocks ==
    /\ \E items \in Items(Blocks) :
          input_call' = InputCall("has_blocks", items,
                                  Returned(input, "none", has_blocks(input, items)))
    /\ UNCHANGED <<input, input_hist, exceptInput>>

\* what is passed as string to add_arbitrary_string: a text, "" and 1234
StringValues ==
    {[type |-> "str", string |-> "top test"], [type |-> "str", string |-> ""],
     [type |-> "int", string |-> ""]}

\* ArbitraryStringPos
Positions ==
    {"TOP", "BEFORE_COORDS", "BOTTOM"}

\* Input.add_arbitrary_string(string, pos=)
add_arbitrary_string(inp, string, pos) ==
    IF string.type # "str" THEN Returned(inp, "TypeError", <<>>)
    ELSE IF string.string = "" THEN Returned(inp, "ValueError", <<>>)
    ELSE Returned([inp EXCEPT !.arbitrary_strings =
                      Append(@, [string |-> string.string, pos |-> pos])], "none", <<>>)

\* Input.remove_arbitrary_string(string, strict=)
remove_arbitrary_string(inp, string, strict) ==
    IF \E i \in 1..Len(inp.arbitrary_strings) : inp.arbitrary_strings[i].string = string.string
    THEN Returned([inp EXCEPT !.arbitrary_strings =
                      SelectSeq(@, LAMBDA a : a.string # string.string)], "none", <<>>)
    ELSE IF strict THEN Returned(inp, "ValueError", <<>>)
    ELSE Returned(inp, "none", <<>>)

\* the mutant of clear_arbitrary_strings: strict is not looked at
clear_arbitrary_strings_lenient(inp, strict) ==
    Returned([inp EXCEPT !.arbitrary_strings = <<>>], "none", <<>>)

\* Input.clear_arbitrary_strings(strict=)
clear_arbitrary_strings(inp, strict) ==
    IF strict /\ inp.arbitrary_strings = <<>> THEN Returned(inp, "ValueError", <<>>)
    ELSE Returned([inp EXCEPT !.arbitrary_strings = <<>>], "none", <<>>)

AddArbitraryString ==
    /\ Len(input.arbitrary_strings) < MaxStrings
    /\ \E string \in StringValues, pos \in Positions :
          LET r == add_arbitrary_string(input, string, pos)
          IN  /\ input' = r.input
              /\ input_call' = InputCall("add_arbitrary_string", <<>>, r)
    /\ UNCHANGED <<input_hist, exceptInput>>

RemoveArbitraryString ==
    /\ \E string \in StringValues, strict \in BOOLEAN :
          LET r == remove_arbitrary_string(input, string, strict)
          IN  /\ input' = r.input
              /\ input_call' = InputCall("remove_arbitrary_string", <<>>, r)
    /\ UNCHANGED <<input_hist, exceptInput>>

ClearArbitraryStrings ==
    /\ \E strict \in BOOLEAN :
          LET r == clear_arbitrary_strings(input, strict)
          IN  /\ input' = r.input
              /\ input_call' = InputCall("clear_arbitrary_strings", <<>>, r)
    /\ UNCHANGED <<input_hist, exceptInput>>

InputInitAll ==
    ObjIdle /\ EnvIdle /\ PathIdle /\ RunIdle /\ XyzIdle /\ IoIdle /\ LineIdle /\ VerIdle /\ BlockIdle /\ TextIdle

InputNext ==
    \/ AddSimpleKeywords
    \/ RemoveSimpleKeywords
    \/ ClearSimpleKeywords
    \/ GetSimpleKeywords
    \/ HasSimpleKeywords
    \/ AddBlocks
    \/ RemoveBlocks
    \/ ClearBlocks
    \/ GetBlocks
    \/ SetReturnedBlock
    \/ HasBlocks

SpecInput ==
    InputInitAll /\ [][InputNext]_vars

\* the operations that change an Input, arbitrary strings included
StrictNext ==
    \/ AddSimpleKeywords
    \/ RemoveSimpleKeywords
    \/ ClearSimpleKeywords
    \/ AddBlocks
    \/ RemoveBlocks
    \/ ClearBlocks
    \/ AddArbitraryString
    \/ RemoveArbitraryString
    \/ ClearArbitraryStrings

SpecStrict ==
    InputInitAll /\ [][StrictNext]_vars

(***************************************************************************)
(* C9: has_simple_keywords and has_blocks report a keyword (compared       *)
(* ignoring case) or a block type as present exactly when the last         *)
(* operation that affected it was an addition, and a has_ call returns     *)
(* that report for each of its items.                                      *)
(***************************************************************************)
C9_PresentIffLastAdded ==
    /\ \A k \in Keywords :
          has_simple_keywords(input, <<k>>) = <<input_hist.kw[lower[k.keyword]] = "added">>
    /\ \A b \in Blocks :
          has_blocks(input, <<b>>) = <<input_hist.blk[b.type] = "added">>
    /\ (input_call # NoCall /\ input_call.op = "has_simple_keywords") =>
          input_call.result = [i \in DOMAIN input_call.items |->
              input_hist.kw[lower[input_call.items[i].keyword]] = "added"]
    /\ (input_call # NoCall /\ input_call.op = "has_blocks") =>
          input_call.result = [i \in DOMAIN input_call.items |->
              input_hist.blk[input_call.items[i].type] = "added"]

\* a block was removed while another block and a keyword stay
C9_Witness ==
    /\ input_call # NoCall
    /\ input_call.op = "remove_blocks"
    /\ input_call.exc = "none"
    /\ input_call.changed
    /\ input_hist.blk["BlockMethod"] = "absent"
    /\ input_hist.blk["BlockScf"] = "added"
    /\ input_hist.kw["hf"] = "absent"
    /\ input_hist.kw["ex"] = "added"

(***************************************************************************)
(* C10: an Input never holds two blocks of one type nor two simple         *)
(* keywords that are equal ignoring case, whatever operations ran and      *)
(* whether they raised; and every keyword whose text equals that of a      *)
(* stored keyword ignoring case, plain string or not, is found by          *)
(* has_simple_keywords and returned by get_simple_keywords.                *)
(***************************************************************************)
C10_NoDuplicates ==
    /\ \A p, q \in input.blocks : p[1] = q[1] => p = q
    /\ \A i, j \in DOMAIN input.simple_keywords :
          lower[input.simple_keywords[i].keyword] = lower[input.simple_keywords[j].keyword]
             => i = j
    /\ \A i \in DOMAIN input.simple_keywords : \A k \in Keywords :
          lower[k.keyword] = lower[input.simple_keywords[i].keyword] =>
             /\ has_simple_keywords(input, <<k>>) = <<TRUE>>
             /\ get_simple_keywords(input, <<k>>, FALSE).result
                   = <<input.simple_keywords[i]>>

\* Method.HF is stored alone and a strict addition raised, and a block
\* with settings is stored
C10_Witness ==
    /\ input_call # NoCall
    /\ input_call.op = "add_simple_keywords"
    /\ input_call.exc = "ValueError"
    /\ input.simple_keywords = <<[type |-> "SimpleKeyword", keyword |-> "hf"]>>
    /\ <<"BlockMethod", [type |-> "BlockMethod", settings |-> <<"d3s6">>]>> \in input.blocks

(***************************************************************************)
(* C11: in every state of an Input, add_blocks without overwrite raises    *)
(* ValueError when the type of one of its blocks is already present, and   *)
(* every block stored before the call is still stored unchanged; with      *)
(* overwrite nothing is raised and for each type passed the block read     *)
(* back from Input.blocks is the last instance of that type in the call.   *)
(***************************************************************************)
C11_DuplicateBlock ==
    \A items \in Items(Blocks), mode \in {"plain", "strict", "overwrite"} :
        LET r     == add_blocks(input, items, mode)
            after == r.input.blocks
            dup   == \/ \E i \in DOMAIN items : \E p \in input.blocks : p[1] = items[i].type
                     \/ \E i, j \in DOMAIN items : i < j /\ items[i].type = items[j].type
        IN  IF mode = "overwrite"
            THEN /\ r.exc = "none"
                 /\ \A i \in DOMAIN items :
                       (\A j \in DOMAIN items : j > i => items[j].type # items[i].type)
                          => {p \in after : p[1] = items[i].type} = {<<items[i].type, items[i]>>}
                 /\ \A p \in input.blocks :
                       (\A i \in DOMAIN items : items[i].type # p[1]) => p \in after
            ELSE /\ dup <=> r.exc = "ValueError"
                 /\ ~dup <=> r.exc = "none"
                 /\ \A p \in input.blocks : p \in after
                 /\ ~dup => \A i \in DOMAIN items : <<items[i].type, items[i]>> \in after

\* an addition raised over a stored block, which is still the one stored
C11_Witness ==
    /\ input_call # NoCall
    /\ input_call.op = "add_blocks"
    /\ input_call.exc = "ValueError"
    /\ ~input_call.changed
    /\ input.blocks = {<<"BlockMethod", [type |-> "BlockMethod", settings |-> <<"d3s6">>]>>}

\* an overwriting addition replaced the stored block by the later instance
C11_WitnessOverwrite ==
    /\ input_call # NoCall
    /\ input_call.op = "add_blocks"
    /\ input_call.exc = "none"
    /\ input_call.changed
    /\ input_hist.blk["BlockMethod"] = "added"
    /\ input.blocks = {<<"BlockMethod", [type |-> "BlockMethod", settings |-> <<"d3s6">>]>>}

(***************************************************************************)
(* C12: with strict, adding simple keywords that are all present,          *)
(* removing blocks or an arbitrary string that are absent, and clearing    *)
(* the keywords, the blocks or the arbitrary strings of an Input that      *)
(* holds none raise ValueError; without strict the same calls raise        *)
(* nothing; in both cases the Input is left as it was.                     *)
(***************************************************************************)
C12_StrictRaises ==
    LET raised  == [input |-> input, exc |-> "ValueError", result |-> <<>>]
        nothing == [input |-> input, exc |-> "none", result |-> <<>>]
    IN  /\ \A items \in Items(Keywords) :
              (\A i \in DOMAIN items : \E j \in DOMAIN input.simple_keywords :
                    lower[input.simple_keywords[j].keyword] = lower[items[i].keyword])
                 => /\ add_simple_keywords(input, items, TRUE) = raised
                    /\ add_simple_keywords(input, items, FALSE) = nothing
        /\ \A items \in Items(Blocks) :
              (\A i \in DOMAIN items : \A p \in input.blocks : p[1] # items[i].type)
                 => /\ remove_blocks(input, items, TRUE) = raised
                    /\ remove_blocks(input, items, FALSE) = nothing
        /\ \A string \in StringValues :
              (\A j \in DOMAIN input.arbitrary_strings :
                    input.arbitrary_strings[j].string # string.string)
                 => /\ remove_arbitrary_string(input, string, TRUE) = raised
                    /\ remove_arbitrary_string(input, string, FALSE) = nothing
        /\ input.simple_keywords = <<>> =>
              /\ clear_simple_keywords(input, TRUE) = raised
              /\ clear_simple_keywords(input, FALSE) = nothing
        /\ input.blocks = {} =>
              /\ clear_blocks(input, TRUE) = raised
              /\ clear_blocks(input, FALSE) = nothing
        /\ input.arbitrary_strings = <<>> =>
              /\ clear_arbitrary_strings(input, TRUE) = raised
              /\ clear_arbitrary_strings(input, FALSE) = nothing

\* a strict clear of the arbitrary strings raised on an Input that holds a
\* keyword and a block but no arbitrary string
C12_Witness ==
    /\ input_call # NoCall
    /\ input_call.op = "clear_arbitrary_strings"
    /\ input_call.exc = "ValueError"
    /\ ~input_call.changed
    /\ input.arbitrary_strings = <<>>
    /\ input.simple_keywords # <<>>
    /\ input.blocks # {}

(***************************************************************************)
(* C13: get_blocks and get_simple_keywords without create_missing leave    *)
(* the Input as it is and return nothing for an item that is absent; with  *)
(* create_missing every item asked for is stored afterwards, returned, and *)
(* reported by has_blocks / has_simple_keywords, and a following get_      *)
(* returns the same; a block that get_blocks returned is the stored        *)
(* instance: a field set on it is read back from Input.blocks.             *)
(***************************************************************************)
C13_GetCreateMissing ==
    /\ \A types \in Items(BlockTypes) :
          LET plain   == get_blocks(input, types, FALSE)
              created == get_blocks(input, types, TRUE)
              again   == get_blocks(created.input, types, FALSE)
          IN  /\ plain.input = input
              /\ \A i \in DOMAIN types :
                    /\ (\A p \in input.blocks : p[1] # types[i])
                          => \A r \in plain.result : r.type # types[i]
                    /\ has_blocks(created.input, <<[type |-> types[i], settings |-> <<>>]>>)
                          = <<TRUE>>
                    /\ \E r \in created.result :
                          /\ r.type = types[i]
                          /\ <<r.type, r.block>> \in created.input.blocks
              /\ again.result = created.result
              /\ again.input = created.input
              /\ \A p \in input.blocks : p \in created.input.blocks
    /\ \A items \in Items(Keywords) :
          LET plain   == get_simple_keywords(input, items, FALSE)
              created == get_simple_keywords(input, items, TRUE)
              again   == get_simple_keywords(created.input, items, FALSE)
          IN  /\ plain.input = input
              /\ (\A i \in DOMAIN items : \A j \in DOMAIN input.simple_keywords :
                     lower[input.simple_keywords[j].keyword] # lower[items[i].keyword])
                    => plain.result = <<>>
              /\ has_simple_keywords(created.input, items) = [i \in DOMAIN items |-> TRUE]
              /\ \A i \in DOMAIN items : \E j \in DOMAIN created.result :
                    lower[created.result[j].keyword] = lower[items[i].keyword]
              /\ again.result = created.result
              /\ again.input = created.input
    /\ (input_call # NoCall /\ input_call.op = "set_returned_block") =>
          <<input_call.result.type, input_call.result>> \in input.blocks

\* a block created by get_blocks was changed through the returned instance
C13_Witness ==
    /\ input_call # NoCall
    /\ input_call.op = "set_returned_block"
    /\ input_call.changed
    /\ input_call.result = [type |-> "BlockMethod", settings |-> <<"d3s6">>]
    /\ input.blocks = {<<"BlockMethod", [type |-> "BlockMethod", settings |-> <<"d3s6">>]>>}
    /\ input.simple_keywords = <<>>

(***************************************************************************)
(* Properties: parsing XYZ text                                            *)
(***************************************************************************)
\* the lines of XYZ text, each the sequence of its tokens: a blank line, a
\* user comment, "1", "E 1.5" and "H 0"
XyzLines ==
    {<<>>, <<"#">>, <<"1">>, <<"E", "1.5">>, <<"H", "0">>}

\* int(token): the tokens int accepts, with their value
int ==
    ("1" :> 1) @@ ("0" :> 0)

\* RGX_INT_AND_FLOAT: the tokens that are numbers
RGX_INT_AND_FLOAT ==
    {"1", "0", "1.5"}

\* n_struc_limit=None is written -1
NoLimit ==
    -1

\* TrackingTextIO(stream): the lines, the position and whether it is closed
TrackingTextIO(lines) ==
    [lines |-> lines, line_number |-> 0, closed |-> FALSE]

\* TrackingTextIO.readline: "" at the end of the data
readline(tracked) ==
    IF tracked.line_number < Len(tracked.lines)
    THEN [eof |-> FALSE, line |-> tracked.lines[tracked.line_number + 1],
          tracked |-> [tracked EXCEPT !.line_number = @ + 1]]
    ELSE [eof |-> TRUE, line |-> <<>>, tracked |-> tracked]

\* TrackingTextIO.__exit__
close(tracked) ==
    [tracked EXCEPT !.closed = TRUE]

RECURSIVE skip_lines_blank_only(_, _)
\* the loop skipping empty lines only
skip_lines_blank_only(xyz_lines, comment_symbols) ==
    LET r == readline(xyz_lines)
    IN  IF r.eof THEN r
        ELSE IF r.line = <<>> THEN skip_lines_blank_only(r.tracked, comment_symbols)
        ELSE r

RECURSIVE skip_lines(_, _)
\* from_xyz_buffer: the loop over empty and user comment lines; the last
\* line read, "" at the end of the data
skip_lines(xyz_lines, comment_symbols) ==
    LET r == readline(xyz_lines)
    IN  IF r.eof THEN r
        ELSE IF r.line = <<>> THEN skip_lines(r.tracked, comment_symbols)
        ELSE IF comment_symbols # None /\ <<Head(r.line)>> = comment_symbols
        THEN skip_lines(r.tracked, comment_symbols)
        ELSE r

RECURSIVE skip_structure(_, _)
\* from_xyz_buffer: for iline in range(natoms): readline, "" is an error
skip_structure(xyz_lines, natoms) ==
    LET r == readline(xyz_lines)
    IN  IF natoms <= 0 THEN [exc |-> "none", tracked |-> xyz_lines]
        ELSE IF r.eof THEN [exc |-> "ValueError", tracked |-> r.tracked]
        ELSE skip_structure(r.tracked, natoms - 1)

\* Properties.goat_energies: the first number of the comment line
goat_energies(line) ==
    LET numbers == SelectSeq(line, LAMBDA m : m \in RGX_INT_AND_FLOAT)
    IN  IF numbers = <<>> THEN [exc |-> "ValueError", energy_total |-> ""]
        ELSE [exc |-> "none", energy_total |-> numbers[1]]

\* what a parsing step gives: the exception, the Properties and the stream
Parsed(exc, properties, tracked) ==
    [exc |-> exc, properties |-> properties, tracked |-> tracked]

\* the comment line and the atom lines looked for behind empty lines and
\* user comments as well
from_xyz_buffer_skipping(xyz_lines, comment_symbols) ==
    LET first   == skip_lines(xyz_lines, comment_symbols)
        comment == skip_lines(first.tracked, comment_symbols)
        props   == goat_energies(comment.line)
        atom    == skip_lines(comment.tracked, comment_symbols)
    IN  IF first.eof THEN Parsed("EOFError", <<>>, first.tracked)
        ELSE IF Head(first.line) \notin DOMAIN int
        THEN Parsed("ValueError", <<>>, first.tracked)
        ELSE IF comment.eof THEN Parsed("ValueError", <<>>, comment.tracked)
        ELSE IF props.exc # "none" THEN Parsed("ValueError", <<>>, comment.tracked)
        ELSE IF atom.eof THEN Parsed("ValueError", <<>>, atom.tracked)
        ELSE Parsed("none", <<props.energy_total>>, atom.tracked)

\* Properties.from_xyz_buffer (mode "goat")
from_xyz_buffer(xyz_lines, comment_symbols) ==
    LET first   == skip_lines(xyz_lines, comment_symbols)
        comment == readline(first.tracked)
        props   == goat_energies(comment.line)
        rest    == skip_structure(comment.tracked, int[Head(first.line)])
    IN  IF first.eof THEN Parsed("EOFError", <<>>, first.tracked)
        ELSE IF Head(first.line) \notin DOMAIN int
        THEN Parsed("ValueError", <<>>, first.tracked)
        ELSE IF comment.eof THEN Parsed("ValueError", <<>>, comment.tracked)
        ELSE IF props.exc # "none" THEN Parsed("ValueError", <<>>, comment.tracked)
        ELSE IF rest.exc # "none" THEN Parsed("ValueError", <<>>, rest.tracked)
        ELSE Parsed("none", <<props.energy_total>>, rest.tracked)

\* the limit checked one structure late
limit_reached_late(n_struc_limit, n_struc) ==
    n_struc_limit # NoLimit /\ n_struc_limit # 0 /\ n_struc > n_struc_limit

\* Properties._iter_xyz_structures: if n_struc_limit and n_struc >= n_struc_limit
limit_reached(n_struc_limit, n_struc) ==
    n_struc_limit # NoLimit /\ n_struc_limit # 0 /\ n_struc >= n_struc_limit

\* every exception ending the loop
ends_iteration_any(exc) ==
    exc # "none"

\* Properties._iter_xyz_structures: except EOFError: break
ends_iteration(exc) ==
    exc = "EOFError"

RECURSIVE iter_structures(_, _, _, _)
\* the loop of Properties._iter_xyz_structures, n_struc being
\* Len(properties_trj)
iter_structures(tracked, comment_symbols, n_struc_limit, properties_trj) ==
    LET props == from_xyz_buffer(tracked, comment_symbols)
        found == properties_trj \o props.properties
    IN  IF ends_iteration(props.exc) THEN Parsed("none", properties_trj, props.tracked)
        ELSE IF props.exc # "none" THEN Parsed(props.exc, <<>>, props.tracked)
        ELSE IF limit_reached(n_struc_limit, Len(found))
        THEN Parsed("none", found, props.tracked)
        ELSE iter_structures(props.tracked, comment_symbols, n_struc_limit, found)

\* list(Properties._iter_xyz_structures(...))
iter_xyz_structures(tracked, comment_symbols, n_struc_limit) ==
    IF n_struc_limit # NoLimit /\ n_struc_limit <= 0
    THEN Parsed("ValueError", <<>>, tracked)
    ELSE iter_structures(tracked, comment_symbols, n_struc_limit, <<>>)

\* Properties.from_trj_xyz_block, and Properties.from_trj_xyz once the file
\* is open: the with statement closes the stream however the body ends
from_trj_xyz_block(trj_string, comment_symbols, n_struc_limit) ==
    LET r == iter_xyz_structures(TrackingTextIO(trj_string), comment_symbols, n_struc_limit)
    IN  IF r.exc = "none" /\ r.properties = <<>>
        THEN Parsed("EOFError", <<>>, close(r.tracked))
        ELSE Parsed(r.exc, r.properties, close(r.tracked))

\* the stream of a call that opened none
NoStream ==
    [lines |-> <<>>, line_number |-> 0, closed |-> TRUE]

\* Properties.from_trj_xyz
from_trj_xyz(trj_exists, trj_file, comment_symbols, n_struc_limit) ==
    IF ~trj_exists THEN Parsed("FileNotFoundError", <<>>, NoStream)
    ELSE from_trj_xyz_block(trj_file, comment_symbols, n_struc_limit)

\* Properties.from_xyz and from_xyz_block: [0] of the list
first_of(r) ==
    IF r.exc = "none" THEN [r EXCEPT !.properties = <<r.properties[1]>>] ELSE r

\* the values of comment_symbols and of n_struc_limit of the calls
CommentSymbols ==
    {None, <<"#">>}

Limits ==
    {NoLimit, 0, 1, 2}

\* the record of a parsing call: its arguments, the exception raised, the
\* energies of the Properties returned and whether its stream is closed
XyzCall(op, comment_symbols, n_struc_limit, r) ==
    [op |-> op, comment_symbols |-> comment_symbols, n_struc_limit |-> n_struc_limit,
     exc |-> r.exc, result |-> r.properties, closed |-> r.tracked.closed]

FromTrjXyz ==
    /\ xyz_call = NoCall
    /\ \E trj_exists \in BOOLEAN, comment_symbols \in CommentSymbols, n_struc_limit \in Limits :
          xyz_call' = XyzCall("from_trj_xyz", comment_symbols, n_struc_limit,
                              from_trj_xyz(trj_exists, xyz_input, comment_symbols, n_struc_limit))
    /\ UNCHANGED <<xyz_input, exceptXyz>>

FromXyz ==
    /\ xyz_call = NoCall
    /\ \E xyz_exists \in BOOLEAN :
          xyz_call' = XyzCall("from_xyz", None, 1,
                              first_of(from_trj_xyz(xyz_exists, xyz_input, None, 1)))
    /\ UNCHANGED <<xyz_input, exceptXyz>>

FromTrjXyzBlock ==
    /\ xyz_call = NoCall
    /\ \E comment_symbols \in CommentSymbols, n_struc_limit \in Limits :
          xyz_call' = XyzCall("from_trj_xyz_block", comment_symbols, n_struc_limit,
                              from_trj_xyz_block(xyz_input, comment_symbols, n_struc_limit))
    /\ UNCHANGED <<xyz_input, exceptXyz>>

FromXyzBlock ==
    /\ xyz_call = NoCall
    /\ xyz_call' = XyzCall("from_xyz_block", None, 1,
                           first_of(from_trj_xyz_block(xyz_input, None, 1)))
    /\ UNCHANGED <<xyz_input, exceptXyz>>

\* the buffer is the caller's: from_xyz_buffer leaves it open
FromXyzBuffer ==
    /\ xyz_call = NoCall
    /\ \E comment_symbols \in CommentSymbols :
          xyz_call' = XyzCall("from_xyz_buffer", comment_symbols, 1,
                              from_xyz_buffer(TrackingTextIO(xyz_input), comment_symbols))
    /\ UNCHANGED <<xyz_input, exceptXyz>>

XyzInit ==
    /\ xyz_input \in UNION {[1..n -> XyzLines] : n \in 0..MaxLines}
    /\ xyz_call = NoCall

XyzInitAll ==
    XyzInit /\ EnvIdle /\ PathIdle /\ RunIdle /\ ObjIdle /\ IoIdle /\ LineIdle /\ VerIdle /\ BlockIdle /\ TextIdle

XyzNext ==
    \/ FromTrjXyz
    \/ FromXyz
    \/ FromTrjXyzBlock
    \/ FromXyzBlock
    \/ FromXyzBuffer

SpecXyz ==
    XyzInitAll /\ [][XyzNext]_vars

C4_ReturnsTerminationCheck ==
    (last # NoCall /\ last.call.caller = "calc" /\ Len(launches) = 1) =>
        LET log == [dir |-> calc.working_dir, name |-> calc.basename \o <<"out">>]
            marked == log \in DOMAIN fs /\ \E i \in 1..Len(fs[log]) : fs[log][i] = Marker
        IN  /\ last.outcome \in {"returned", "TimeoutExpired"}
            /\ last.outcome = "returned" => last.value = (IF marked THEN "True" ELSE "False")
            /\ (last.outcome = "returned" /\ launches[1].stdout = log
                    /\ \A i \in 1..Len(last.out) : last.out[i] # Marker)
                  => last.value = "False"

\* a run that ends with a non-zero exit status and the marker in its log, and
\* whose result is True
C4_Witness ==
    /\ last # NoCall
    /\ last.call.caller = "calc"
    /\ last.exit = 1
    /\ last.value = "True"
    /\ launches[1].stdout = [dir |-> calc.working_dir, name |-> calc.basename \o <<"out">>]

(***************************************************************************)
(* C5: a call of run_orca launches the main binary at most once; the       *)
(* launch has the name of the input file as first argument, followed by    *)
(* the extra arguments in their order, with stdout and stderr redirected   *)
(* to <basename>.out and <basename>.err in the directory of the input      *)
(* file; when the input file does not exist, FileNotFoundError is raised,  *)
(* nothing is launched and no file is created.                             *)
(***************************************************************************)
C5_SingleLaunch ==
    LET call == IF cur # NoCall THEN cur ELSE last.call
    IN  /\ Len(launches) <= 1
        /\ (cur # NoCall \/ last # NoCall) =>
              /\ Len(launches) = 1 =>
                    LET inp == call.inpfile
                        stem == SubSeq(inp.name, 1, Len(inp.name) - 1)
                    IN  /\ inp \in DOMAIN call.fs_before
                        /\ launches[1].cmd = <<"orca", inp.name>> \o call.extra_args
                        /\ launches[1].stdout = [dir |-> inp.dir, name |-> stem \o <<"out">>]
                        /\ launches[1].stderr = [dir |-> inp.dir, name |-> stem \o <<"err">>]
              /\ (call.inpfile # None /\ call.inpfile \notin DOMAIN call.fs_before) =>
                    /\ last.outcome = "FileNotFoundError: input"
                    /\ launches = <<>>
                    /\ fs = call.fs_before

\* a launch with extra arguments that timed out, and was not repeated
C5_Witness ==
    /\ last # NoCall
    /\ last.outcome = "TimeoutExpired"
    /\ Len(launches) = 1
    /\ launches[1].cmd = <<"orca", <<"job", "v2", "inp">>, "-a", "-b">>

\* a call for an input file that does not exist
C5_WitnessMissing ==
    /\ last # NoCall
    /\ last.outcome = "FileNotFoundError: input"
    /\ fs # <<>>

(***************************************************************************)
(* Properties: the numbers of a comment line                               *)
(***************************************************************************)
\* the characters of the comment lines: digits, a letter, the point, a blank
LineChars ==
    {"1", "2", "H", ".", " "}

isdigit(c) ==
    c \in {"1", "2"}

isalpha(c) ==
    c = "H"

\* \d*: the number of digits from position i on
digit_run(line, i) ==
    CHOOSE n \in 0..Len(line) :
        /\ \A k \in 0..(n - 1) : i + k <= Len(line) /\ isdigit(line[i + k])
        /\ ~(i + n <= Len(line) /\ isdigit(line[i + n]))

\* (?<![A-Za-z]) at position i
lookbehind(line, i) ==
    i = 1 \/ ~isalpha(line[i - 1])

\* (?![A-Za-z]) at position j
lookahead(line, j) ==
    j > Len(line) \/ ~isalpha(line[j])

\* the digits at position i that \d+ (least 1) or \d* (least 0) ends up with
\* when the lookahead comes next: as many as there are, one fewer when a
\* letter follows them; -1 when that is under the least
digits_before_lookahead(line, i, least) ==
    LET n == digit_run(line, i)
    IN  IF lookahead(line, i + n) THEN (IF n >= least THEN n ELSE -1)
        ELSE IF n - 1 >= least THEN n - 1
        ELSE -1

\* RGX_INT_AND_FLOAT matched at position i: the length of the match, 0 when
\* there is none; the alternatives \d+\.\d*, \.\d+ and \d+ in this order
match(line, i) ==
    LET n  == digit_run(line, i)
        a1 == IF n >= 1 /\ i + n <= Len(line) /\ line[i + n] = "."
              THEN digits_before_lookahead(line, i + n + 1, 0) ELSE -1
        a2 == IF line[i] = "." THEN digits_before_lookahead(line, i + 1, 1) ELSE -1
        a3 == digits_before_lookahead(line, i, 1)
    IN  IF ~lookbehind(line, i) THEN 0
        ELSE IF a1 >= 0 THEN n + 1 + a1
        ELSE IF a2 >= 0 THEN 1 + a2
        ELSE IF a3 >= 0 THEN a3
        ELSE 0

RECURSIVE findall(_, _)
\* re.findall(RGX_INT_AND_FLOAT, line), from position i on
findall(line, i) ==
    IF i > Len(line) THEN <<>>
    ELSE IF match(line, i) > 0
    THEN <<SubSeq(line, i, i + match(line, i) - 1)>> \o findall(line, i + match(line, i))
    ELSE findall(line, i + 1)

\* float(m): the digits before and after the point
float(m) ==
    LET point == IF \E k \in 1..Len(m) : m[k] = "."
                 THEN CHOOSE k \in 1..Len(m) : m[k] = "." ELSE Len(m) + 1
    IN  <<SubSeq(m, 1, point - 1), SubSeq(m, point + 1, Len(m))>>

\* int(number): the part before the point
int_float(number) ==
    IF number[1] = <<>> THEN <<"0">> ELSE number[1]

\* numbers = [float(m) for m in re.findall(RGX_INT_AND_FLOAT, line)]
numbers_of(line) ==
    LET found == findall(line, 1)
    IN  [k \in 1..Len(found) |-> float(found[k])]

\* Properties(structure_id=, energy_total=, energy_relative=), or the
\* exception raised instead
Energies(exc, structure_id, energy_total, energy_relative) ==
    [exc |-> exc, structure_id |-> structure_id, energy_total |-> energy_total,
     energy_relative |-> energy_relative]

\* Properties.docker_energies
Properties_docker_energies(line) ==
    LET numbers == numbers_of(line)
    IN  IF Len(numbers) < 3 THEN Energies("ValueError", None, None, None)
        ELSE Energies("none", int_float(numbers[1]), numbers[2], numbers[3])

\* Properties.goat_energies
Properties_goat_energies(line) ==
    LET numbers == numbers_of(line)
    IN  IF Len(numbers) < 1 THEN Energies("ValueError", None, None, None)
        ELSE Energies("none", None, numbers[1], None)

DockerEnergies ==
    /\ energies_call = NoCall
    /\ energies_call' = [mode |-> "docker"] @@ Properties_docker_energies(comment_line)
    /\ UNCHANGED <<comment_line, exceptLine>>

GoatEnergies ==
    /\ energies_call = NoCall
    /\ energies_call' = [mode |-> "goat"] @@ Properties_goat_energies(comment_line)
    /\ UNCHANGED <<comment_line, exceptLine>>

LineInit ==
    /\ comment_line \in UNION {[1..n -> LineChars] : n \in 0..MaxLineLen}
    /\ energies_call = NoCall

LineInitAll ==
    LineInit /\ EnvIdle /\ PathIdle /\ RunIdle /\ ObjIdle /\ XyzIdle /\ IoIdle /\ VerIdle /\ BlockIdle /\ TextIdle

LineNext ==
    \/ DockerEnergies
    \/ GoatEnergies

SpecLine ==
    LineInitAll /\ [][LineNext]_vars

(***************************************************************************)
(* Calculator.write_input and the files and streams the calls open         *)
(***************************************************************************)
\* Input.format_before_coords: the strings at the top, the keywords, the
\* blocks and the strings before the coordinates
format_before_coords(inp, working_dir) ==
    [section |-> "before",
     text |-> <<SelectSeq(inp.arbitrary_strings, LAMBDA a : a.pos = "TOP"),
                inp.simple_keywords, inp.blocks,
                SelectSeq(inp.arbitrary_strings, LAMBDA a : a.pos = "BEFORE_COORDS")>>]

\* Input.format_after_coords: the strings at the bottom
format_after_coords(inp) ==
    [section |-> "after",
     text |-> <<SelectSeq(inp.arbitrary_strings, LAMBDA a : a.pos = "BOTTOM")>>]

\* the coordinate block: structure.format_orca() of a Structure, or
\* structure.format_orca(working_dir) of a BaseStructureFile
format_coords(struc, working_dir) ==
    IF struc = None THEN <<>>
    ELSE IF struc = <<"BaseStructureFile">>
    THEN <<[section |-> "coords", text |-> <<"xyzfile", working_dir>>]>>
    ELSE <<[section |-> "coords", text |-> <<"xyz">>]>>

\* block.<option> = value: the option is given the value, where it stands
\* when it was set before
with_setting(settings, option, value) ==
    IF \E i \in 1..Len(settings) : settings[i].option = option
    THEN [i \in 1..Len(settings) |->
            IF settings[i].option = option THEN [option |-> option, value |-> value]
            ELSE settings[i]]
    ELSE Append(settings, [option |-> option, value |-> value])

\* the output block replaced by a new BlockOutput with the two options
set_json_output_block_fresh(inp) ==
    [inp EXCEPT !.blocks = dict_set(@, "BlockOutput",
        [type |-> "BlockOutput",
         settings |-> <<[option |-> "jsongbwfile", value |-> "True"],
                        [option |-> "jsonpropfile", value |-> "True"]>>])]

\* Calculator._set_json_output_block
set_json_output_block(inp) ==
    LET got == get_blocks(inp, <<"BlockOutput">>, TRUE)
        output_block == CHOOSE r \in got.result : r.type = "BlockOutput"
    IN  set_field(got.input, output_block,
                  [output_block.block EXCEPT
                      !.settings = with_setting(with_setting(@, "jsongbwfile", "True"),
                                                "jsonpropfile", "True")])

\* True whenever force is given
input_overwritten_force(existed, force) ==
    force

\* Calculator.write_input: input_overwritten = exists and force
input_overwritten(existed, force) ==
    existed /\ force

\* the with statement ends: the handles it opened are closed
with_exit(handles, opened) ==
    handles \ opened

\* Calculator.write_input(force=); writable tells whether the file can be
\* opened for writing
write_input(files, self, inp, handles, force, writable) ==
    LET inpfile == File(self.working_dir, self.basename, <<"inp">>)
        existed == inpfile \in DOMAIN files
        inp1    == IF self.json_via_input THEN set_json_output_block(inp) ELSE inp
        opened  == {"input file"}
        text    == <<format_before_coords(inp1, self.working_dir)>>
                   \o format_coords(self.structure, self.working_dir)
                   \o <<format_after_coords(inp1)>>
    IN  IF existed /\ ~force
        THEN [files |-> files, input |-> inp, inpfile |-> inpfile, handles |-> handles,
              exc |-> "RuntimeError", result |-> "none"]
        ELSE IF ~writable
        THEN [files |-> files, input |-> inp1, inpfile |-> inpfile, handles |-> handles,
              exc |-> "RuntimeError", result |-> "none"]
        ELSE [files |-> written(open_w(files, inpfile), inpfile, text), input |-> inp1,
              inpfile |-> inpfile, handles |-> with_exit(handles \cup opened, opened),
              exc |-> "none", result |-> input_overwritten(existed, force)]

\* the number of calls that opened files so far
io_calls_made ==
    IF io_call = NoCall THEN 0 ELSE io_call.n

\* the record of a call that opens files: the call, how it ended, and the
\* number of such calls so far
IoCall(op, args, exc) ==
    [op |-> op, args |-> args, exc |-> exc, n |-> io_calls_made + 1]

\* calc.write_input(force=...)
WriteInput ==
    /\ Len(write_calls) < MaxWrites
    /\ \E force \in BOOLEAN, writable \in BOOLEAN :
          LET self == [basename |-> calc.basename, working_dir |-> calc.working_dir,
                       structure |-> structure, json_via_input |-> json_via_input]
              r    == write_input(fs, self, input, open_handles, force, writable)
          IN  /\ fs' = r.files
              /\ input' = r.input
              /\ calc' = [calc EXCEPT !.inpfile = r.inpfile]
              /\ open_handles' = r.handles
              /\ write_calls' = Append(write_calls,
                    [force |-> force, writable |-> writable, inpfile |-> r.inpfile,
                     existed |-> r.inpfile \in DOMAIN fs, files_before |-> fs,
                     input_before |-> input, structure |-> structure,
                     json_via_input |-> json_via_input,
                     exc |-> r.exc, result |-> r.result])
              /\ io_call' = IoCall("write_input", <<>>, r.exc)
    /\ UNCHANGED <<structure, json_via_input, exceptWrite>>

\* calc.structure = ...
SetStructure ==
    /\ \E value \in {None, <<"Structure">>, <<"BaseStructureFile">>} :
          /\ value # structure
          /\ structure' = value
    /\ UNCHANGED <<fs, calc, input, json_via_input, write_calls, open_handles, io_call,
                   exceptWrite>>

\* calc.json_via_input = False
SetJsonViaInput ==
    /\ json_via_input
    /\ json_via_input' = FALSE
    /\ UNCHANGED <<fs, calc, input, structure, write_calls, open_handles, io_call,
                   exceptWrite>>

\* the Inputs a Calculator holds when write_input is called
WriteInputs ==
    {[simple_keywords |-> <<>>, blocks |-> {}, arbitrary_strings |-> <<>>],
     [simple_keywords |-> <<[type |-> "SimpleKeyword", keyword |-> "hf"]>>,
      blocks |-> {<<"BlockMethod", [type |-> "BlockMethod", settings |-> <<>>]>>},
      arbitrary_strings |-> <<[string |-> "top test", pos |-> "TOP"],
                              [string |-> "bottom test", pos |-> "BOTTOM"]>>],
     [simple_keywords |-> <<>>,
      blocks |-> {<<"BlockOutput",
                    [type |-> "BlockOutput",
                     settings |-> <<[option |-> "jsongbwfile", value |-> "False"],
                                    [option |-> "print_mos", value |-> "True"]>>]>>},
      arbitrary_strings |-> <<>>]}

\* a Calculator as constructed with an Input filled in, in a directory
\* where an input file of an earlier calculation may lie
WriteInit ==
    /\ \E inps \in SUBSET {File(<<"d1">>, <<"job">>, <<"inp">>)} :
          fs = [f \in inps |-> <<[section |-> "old", text |-> <<>>]>>]
    /\ \E b \in Basenames, d \in Dirs :
          calc = [basename |-> b, working_dir |-> d, inpfile |-> None]
    /\ input \in WriteInputs
    /\ cur = NoCall
    /\ launches = <<>>
    /\ last = NoCall
    /\ run_calls = 0
    /\ Calculator_basename = [exists |-> FALSE, value |-> [type |-> "str", chars |-> <<>>]]
    /\ basename_call = NoCall
    /\ input_hist = [kw |-> [k \in {"hf", "ex"} |-> "absent"],
                     blk |-> [t \in {"BlockMethod", "BlockScf"} |-> "absent"]]
    /\ input_call = NoCall
    /\ IoIdle

WriteInitAll ==
    WriteInit /\ EnvIdle /\ PathIdle /\ XyzIdle /\ LineIdle /\ VerIdle /\ BlockIdle /\ TextIdle

WriteNext ==
    \/ WriteInput
    \/ SetStructure
    \/ SetJsonViaInput

SpecWrite ==
    WriteInitAll /\ [][WriteNext]_vars

\* the values of stdout= and stderr=: None, a path that can be opened for
\* writing, and a path that cannot (its directory is missing)
DumpSources ==
    {"None", "file", "unwritable"}

\* determine_dump of BaseRunner.run: the exception of open and the handle
\* opened; nullcontext opens nothing
determine_dump(source, capture, silent, handle) ==
    IF source = "file" THEN [exc |-> "none", opened |-> {handle}]
    ELSE IF source = "unwritable" THEN [exc |-> "FileNotFoundError", opened |-> {}]
    ELSE IF capture THEN [exc |-> "none", opened |-> {}]
    ELSE IF silent THEN [exc |-> "none", opened |-> {handle}]
    ELSE [exc |-> "none", opened |-> {}]

\* the path behind a value of stdout= or stderr=: a file of the directory
\* d1, or a file of a directory that does not exist
dump_path(source, suffix) ==
    IF source = "file" THEN File(<<"d1">>, <<"run">>, suffix)
    ELSE File(<<"missing">>, <<"run">>, suffix)

\* source.open("w") of determine_dump, for the files on disk: only a path
\* that can be opened is created or truncated
dump_opened(files, source, suffix) ==
    IF source = "file" THEN open_w(files, dump_path(source, suffix)) ELSE files

\* what subprocess.run makes of the dump opened for source: the lines the
\* process writes to it
dump_written(files, source, suffix, lines) ==
    IF source = "file" THEN written(files, dump_path(source, suffix), lines) ELSE files

\* the finally block of BaseRunner.run: if stdout: delete_empty_file(stdout)
dump_deleted(files, source, suffix) ==
    IF source # "None" THEN delete_empty_file(files, dump_path(source, suffix)) ELSE files

\* BaseRunner.run, for the files it opens and the dumps it leaves: ended is
\* how subprocess.run ends, out and err are what the process writes
BaseRunner_run(files, handles, is_orca_binary, found, stdout, stderr, capture, silent, ended, out, err) ==
    LET outfile == determine_dump(stdout, capture, silent, "stdout dump")
        errfile == determine_dump(stderr, capture, silent, "stderr dump")
        files1  == dump_opened(files, stdout, <<"out">>)
        files2  == dump_opened(files1, stderr, <<"err">>)
        files3  == dump_written(dump_written(files2, stdout, <<"out">>, out), stderr,
                                <<"err">>, err)
        files4  == dump_deleted(dump_deleted(files3, stdout, <<"out">>), stderr, <<"err">>)
    IN  IF ~is_orca_binary
        THEN [exc |-> "ValueError", handles |-> handles, files |-> files]
        ELSE IF ~found
        THEN [exc |-> "FileNotFoundError", handles |-> handles, files |-> files]
        ELSE IF outfile.exc # "none"
        THEN [exc |-> outfile.exc, handles |-> handles, files |-> files]
        ELSE IF errfile.exc # "none"
        THEN [exc |-> errfile.exc, handles |-> handles \cup outfile.opened,
              files |-> files1]
        ELSE [exc |-> ended,
              handles |-> with_exit(handles \cup outfile.opened \cup errfile.opened,
                                    outfile.opened \cup errfile.opened),
              files |-> files4]

\* what a process writes to a dump during the call numbered n: nothing, or
\* a line of that call
Dumped(n) ==
    {<<>>, <<[section |-> "process output", text |-> <<n>>]>>}

\* runner.run(binary, args, stdout=, stderr=, silent=, capture=, timeout=)
Run ==
    /\ io_calls_made < MaxIoCalls
    /\ \E is_orca_binary \in BOOLEAN, binary_is_file \in BOOLEAN, stdout \in DumpSources,
          stderr \in DumpSources, capture \in BOOLEAN, silent \in BOOLEAN,
          ended \in {"none", "TimeoutExpired"}, out \in Dumped(io_calls_made + 1),
          err \in Dumped(io_calls_made + 1) :
          LET r == BaseRunner_run(fs, open_handles, is_orca_binary, binary_is_file, stdout,
                                  stderr, capture, silent, ended, out, err)
          IN  /\ open_handles' = r.handles
              /\ fs' = r.files
              /\ io_call' = IoCall("run", <<stdout, stderr, out, err>>, r.exc)
    /\ UNCHANGED <<calc, input, structure, json_via_input, write_calls, exceptWrite>>

\* the texts of the trajectory files and strings: empty, one structure, a
\* structure followed by a line that is no header
TrjTexts ==
    {<<>>, <<<<"1">>, <<"E", "1.5">>, <<"H", "0">>>>,
     <<<<"1">>, <<"E", "1.5">>, <<"H", "0">>, <<"E", "1.5">>>>}

\* the stream of a parsing call, when it is left open
left_open(tracked, handle) ==
    IF tracked.closed THEN {} ELSE {handle}

\* Properties.from_trj_xyz(trj_file, n_struc_limit=)
OpenTrjXyz ==
    /\ io_calls_made < MaxIoCalls
    /\ \E trj_exists \in BOOLEAN, text \in TrjTexts, n_struc_limit \in Limits :
          LET r == from_trj_xyz(trj_exists, text, None, n_struc_limit)
          IN  /\ open_handles' = open_handles \cup left_open(r.tracked, "trajectory file")
              /\ io_call' = IoCall("from_trj_xyz", <<n_struc_limit>>, r.exc)
    /\ UNCHANGED <<fs, calc, input, structure, json_via_input, write_calls, exceptWrite>>

\* Properties.from_trj_xyz_block(trj_string, n_struc_limit=)
OpenTrjXyzBlock ==
    /\ io_calls_made < MaxIoCalls
    /\ \E text \in TrjTexts, n_struc_limit \in Limits :
          LET r == from_trj_xyz_block(text, None, n_struc_limit)
          IN  /\ open_handles' = open_handles \cup left_open(r.tracked, "trajectory string")
              /\ io_call' = IoCall("from_trj_xyz_block", <<n_struc_limit>>, r.exc)
    /\ UNCHANGED <<fs, calc, input, structure, json_via_input, write_calls, exceptWrite>>

HandlesNext ==
    \/ Run
    \/ WriteInput
    \/ OpenTrjXyz
    \/ OpenTrjXyzBlock

SpecHandles ==
    WriteInitAll /\ [][HandlesNext]_vars

(***************************************************************************)
(* The version check: BaseRunner.get_version, BaseRunner.check_version,    *)
(* Calculator.check_version and the check made by Calculator.__init__      *)
(***************************************************************************)
\* how the binary answers "orca --version": with a version that is
\* supported, one that is not, text that holds no version, or not within
\* the time limit
Answers ==
    {"compatible", "incompatible", "unparsable", "silent"}

\* the result of a call: the exception that leaves it and the value returned
Result(exc, value) ==
    [exc |-> exc, value |-> value]

\* OrcaVersion.from_output(orca_proc.stdout): the version, or ValueError
\* for text that holds none
OrcaVersion_from_output(answer) ==
    IF answer = "unparsable" THEN Result("ValueError", "none")
    ELSE Result("none", answer)

\* self.run(OrcaBinary.ORCA, ["--version"], capture=True, timeout=5) of
\* get_version: get_orca_binary raises for a missing binary, subprocess.run
\* raises when the time limit passes
run_version(orca) ==
    IF ~orca.found THEN Result("FileNotFoundError", "none")
    ELSE IF orca.answer = "silent" THEN Result("TimeoutExpired", "none")
    ELSE Result("none", orca.answer)

\* except (subprocess.TimeoutExpired, ValueError, AssertionError)
caught_by_get_version ==
    {"TimeoutExpired", "ValueError", "AssertionError"}

\* BaseRunner.get_version
get_version(orca) ==
    LET orca_proc == run_version(orca)
        parsed    == OrcaVersion_from_output(orca_proc.value)
        raised    == IF orca_proc.exc # "none" THEN orca_proc.exc ELSE parsed.exc
    IN  IF raised \in caught_by_get_version THEN Result("none", "None")
        ELSE IF raised # "none" THEN Result(raised, "none")
        ELSE Result("none", parsed.value)

\* opi.utils.misc.check_minimal_version
check_minimal_version(version) ==
    version = "compatible"

\* BaseRunner.check_version(ignore_errors=)
BaseRunner_check_version(orca, ignore_errors) ==
    LET orca_vers == get_version(orca)
    IN  IF orca_vers.exc # "none" THEN orca_vers
        ELSE IF orca_vers.value = "None"
        THEN IF ignore_errors THEN Result("none", "None")
             ELSE Result("RuntimeError", "none")
        ELSE IF ~check_minimal_version(orca_vers.value)
        THEN IF ignore_errors THEN Result("none", "False")
             ELSE Result("RuntimeError", "none")
        ELSE Result("none", "True")

\* Calculator.check_version: runner.check_version(ignore_errors=False), a
\* RuntimeError is raised again
Calculator_check_version(orca) ==
    LET r == BaseRunner_check_version(orca, FALSE)
    IN  IF r.exc # "none" THEN r ELSE Result("none", "None")

\* Calculator.__init__(version_check=): the check ends the construction
Calculator_init(orca, version_check) ==
    IF version_check THEN Calculator_check_version(orca) ELSE Result("none", "None")

\* runner.check_version(ignore_errors=...)
CheckVersion ==
    /\ Len(version_calls) < MaxVersionCalls
    /\ \E ignore_errors \in BOOLEAN :
          version_calls' = Append(version_calls,
              [op |-> "check_version", flag |-> ignore_errors,
               result |-> BaseRunner_check_version(orca_install, ignore_errors)])
    /\ UNCHANGED <<orca_install, exceptVer>>

\* Calculator(basename, version_check=...)
NewCalculator ==
    /\ Len(version_calls) < MaxVersionCalls
    /\ \E version_check \in BOOLEAN :
          version_calls' = Append(version_calls,
              [op |-> "Calculator", flag |-> version_check,
               result |-> Calculator_init(orca_install, version_check)])
    /\ UNCHANGED <<orca_install, exceptVer>>

\* an ORCA installation whose folder was found: the binary is a file or
\* not, and answers in one of the ways
VerInit ==
    /\ orca_install \in [found : BOOLEAN, answer : Answers]
    /\ version_calls = <<>>

VerInitAll ==
    VerInit /\ EnvIdle /\ PathIdle /\ RunIdle /\ ObjIdle /\ XyzIdle /\ IoIdle /\ LineIdle /\ BlockIdle /\ TextIdle

VerNext ==
    \/ CheckVersion
    \/ NewCalculator

SpecVer ==
    VerInitAll /\ [][VerNext]_vars

(***************************************************************************)
(* Block: the arbitrary options, kept in a NoCaseDict                      *)
(***************************************************************************)
\* the names the options are called by: two spellings of one name, and
\* another name
OptionNames ==
    {"xtbfod", "XTBFOD", "maxiter"}

OptionValues ==
    {"True", "False"}

\* NoCaseDict: the key a name is stored and looked up under, its lower case
NoCaseDict_key(option) ==
    IF option = "XTBFOD" THEN "xtbfod" ELSE option

\* NoCaseDict(): no key holds a value
NoCaseDict ==
    [k \in {NoCaseDict_key(n) : n \in OptionNames} |-> <<>>]

\* NoCaseDict.__contains__
contains(d, option) ==
    d[NoCaseDict_key(option)] # <<>>

\* NoCaseDict.__setitem__
setitem(d, option, val) ==
    [d EXCEPT ![NoCaseDict_key(option)] = <<val>>]

\* NoCaseDict.__delitem__: KeyError for a key that holds nothing
delitem(d, option) ==
    IF contains(d, option)
    THEN [exc |-> "none", arbitrary |-> [d EXCEPT ![NoCaseDict_key(option)] = <<>>]]
    ELSE [exc |-> "KeyError", arbitrary |-> d]

\* Block.has_option
has_option(d, option) ==
    contains(d, option)

\* Block.get_option: the value, KeyError for a key that holds nothing
get_option(d, option) ==
    IF contains(d, option)
    THEN [exc |-> "none", value |-> d[NoCaseDict_key(option)]]
    ELSE [exc |-> "KeyError", value |-> <<>>]

\* the mutant of add_option: an option that exists is overwritten
add_option_overwriting(d, option, val) ==
    [exc |-> "none", arbitrary |-> setitem(d, option, val)]

\* Block.add_option
add_option(d, option, val) ==
    IF has_option(d, option) THEN [exc |-> "KeyError", arbitrary |-> d]
    ELSE [exc |-> "none", arbitrary |-> setitem(d, option, val)]

\* Block.modify_option
modify_option(d, option, val) ==
    [exc |-> "none", arbitrary |-> setitem(d, option, val)]

\* Block.remove_option
remove_option(d, option) ==
    delitem(d, option)

\* Block.clear_options
clear_options(d) ==
    [exc |-> "none", arbitrary |-> [k \in DOMAIN d |-> <<>>]]

\* the record of an option call
OptionOp(op, option, val, r) ==
    [op |-> op, option |-> option, val |-> val, exc |-> r.exc]

\* block.add_option(name, val)
AddOption ==
    /\ Len(option_ops) < MaxOptionOps
    /\ \E option \in OptionNames, val \in OptionValues :
          LET r == add_option(block_arbitrary, option, val)
          IN  /\ block_arbitrary' = r.arbitrary
              /\ option_ops' = Append(option_ops, OptionOp("add_option", option, val, r))
    /\ UNCHANGED exceptBlock

\* block.modify_option(name, val)
ModifyOption ==
    /\ Len(option_ops) < MaxOptionOps
    /\ \E option \in OptionNames, val \in OptionValues :
          LET r == modify_option(block_arbitrary, option, val)
          IN  /\ block_arbitrary' = r.arbitrary
              /\ option_ops' = Append(option_ops, OptionOp("modify_option", option, val, r))
    /\ UNCHANGED exceptBlock

\* block.remove_option(name)
RemoveOption ==
    /\ Len(option_ops) < MaxOptionOps
    /\ \E option \in OptionNames :
          LET r == remove_option(block_arbitrary, option)
          IN  /\ block_arbitrary' = r.arbitrary
              /\ option_ops' = Append(option_ops, OptionOp("remove_option", option, "", r))
    /\ UNCHANGED exceptBlock

\* block.clear_options()
ClearOptions ==
    /\ Len(option_ops) < MaxOptionOps
    /\ LET r == clear_options(block_arbitrary)
       IN  /\ block_arbitrary' = r.arbitrary
           /\ option_ops' = Append(option_ops, OptionOp("clear_options", "", "", r))
    /\ UNCHANGED exceptBlock

\* a block as constructed: no arbitrary option
BlockInit ==
    /\ block_arbitrary = NoCaseDict
    /\ option_ops = <<>>

BlockInitAll ==
    BlockInit /\ EnvIdle /\ PathIdle /\ RunIdle /\ ObjIdle /\ XyzIdle /\ IoIdle /\ LineIdle /\ VerIdle /\ TextIdle

BlockNext ==
    \/ AddOption
    \/ ModifyOption
    \/ RemoveOption
    \/ ClearOptions

SpecBlock ==
    BlockInitAll /\ [][BlockNext]_vars

(***************************************************************************)
(* The two TrackingTextIO classes, opi.utils.textio and                    *)
(* opi.utils.tracking_text_io, reading the same text                       *)
(***************************************************************************)
\* TextIO.readline of a stream at position pos: the next line, "" at the end
stream_readline(stream, pos) ==
    IF pos < Len(stream.lines) THEN [line |-> stream.lines[pos + 1], pos |-> pos + 1]
    ELSE [line |-> "", pos |-> pos]

\* what a read hands out: the exception, the value returned, and the object
Handed(exc, value, self) ==
    [exc |-> exc, value |-> value, self |-> self]

\* readline of both classes
TrackingTextIO_readline(stream, self) ==
    LET r == stream_readline(stream, self.pos)
    IN  IF r.line # ""
        THEN Handed("none", r.line, [pos |-> r.pos, line_number |-> self.line_number + 1])
        ELSE Handed("none", r.line, [self EXCEPT !.pos = r.pos])

\* opi.utils.tracking_text_io.TrackingTextIO.__next__
tracking_next(stream, self) ==
    LET r == stream_readline(stream, self.pos)
    IN  IF r.line = "" THEN Handed("StopIteration", "", [self EXCEPT !.pos = r.pos])
        ELSE Handed("none", r.line, [pos |-> r.pos, line_number |-> self.line_number + 1])

\* opi.utils.textio.TrackingTextIO.__next__: self.file is looked up on the
\* stream by __getattr__
textio_next(stream, self) ==
    IF ~stream.has_file THEN Handed("AttributeError", "", self)
    ELSE tracking_next(stream, self)

\* the body of opi.utils.textio.TrackingTextIO.__iter__, one step of the
\* generator: the next line of the stream
textio_iter_step(stream, self) ==
    LET r == stream_readline(stream, self.pos)
    IN  IF r.line = "" THEN Handed("StopIteration", "", [self EXCEPT !.pos = r.pos])
        ELSE Handed("none", r.line, [pos |-> r.pos, line_number |-> self.line_number + 1])

\* for line in tracked, left with break after at most n lines, for the
\* textio class: the lines handed out
RECURSIVE textio_for(_, _, _)
textio_for(stream, self, n) ==
    LET r == textio_iter_step(stream, self)
        rest == textio_for(stream, r.self, n - 1)
    IN  IF n = 0 THEN Handed("none", <<>>, self)
        ELSE IF r.exc = "StopIteration" THEN Handed("none", <<>>, r.self)
        ELSE IF r.exc # "none" THEN Handed(r.exc, <<>>, r.self)
        ELSE Handed(rest.exc, <<r.value>> \o rest.value, rest.self)

\* the same loop for the tracking_text_io class: __iter__ returns self and
\* the loop calls __next__
RECURSIVE tracking_for(_, _, _)
tracking_for(stream, self, n) ==
    LET r == tracking_next(stream, self)
        rest == tracking_for(stream, r.self, n - 1)
    IN  IF n = 0 THEN Handed("none", <<>>, self)
        ELSE IF r.exc = "StopIteration" THEN Handed("none", <<>>, r.self)
        ELSE IF r.exc # "none" THEN Handed(r.exc, <<>>, r.self)
        ELSE Handed(rest.exc, <<r.value>> \o rest.value, rest.self)

\* the record of a read made on both objects
TextOp(op, a, b) ==
    [op |-> op, textio |-> [exc |-> a.exc, value |-> a.value],
     tracking |-> [exc |-> b.exc, value |-> b.value]]

\* tracked.readline() on both objects
TextReadline ==
    /\ Len(text_ops) < MaxTextOps
    /\ LET a == TrackingTextIO_readline(text_stream, textio_obj)
           b == TrackingTextIO_readline(text_stream, tracking_obj)
       IN  /\ textio_obj' = a.self
           /\ tracking_obj' = b.self
           /\ text_ops' = Append(text_ops, TextOp("readline", a, b))
    /\ UNCHANGED <<text_stream, exceptText>>

\* next(tracked) on both objects
TextCallNext ==
    /\ Len(text_ops) < MaxTextOps
    /\ LET a == textio_next(text_stream, textio_obj)
           b == tracking_next(text_stream, tracking_obj)
       IN  /\ textio_obj' = a.self
           /\ tracking_obj' = b.self
           /\ text_ops' = Append(text_ops, TextOp("next", a, b))
    /\ UNCHANGED <<text_stream, exceptText>>

\* for line in tracked: ..., left after n lines or at the end of the text
TextFor ==
    /\ Len(text_ops) < MaxTextOps
    /\ \E n \in {1, MaxTextLines + 1} :
          LET a == textio_for(text_stream, textio_obj, n)
              b == tracking_for(text_stream, tracking_obj, n)
          IN  /\ textio_obj' = a.self
              /\ tracking_obj' = b.self
              /\ text_ops' = Append(text_ops, TextOp("for", a, b))
    /\ UNCHANGED <<text_stream, exceptText>>

\* both objects constructed on streams of the same text; the stream is a
\* StringIO or an open file, which have no attribute file, or a wrapper of
\* a temporary file, which has one
TextInit ==
    /\ \E n \in 0..MaxTextLines, has_file \in BOOLEAN :
          \E lines \in [1..n -> {"a", "b"}] :
              text_stream = [lines |-> lines, has_file |-> has_file]
    /\ textio_obj = [pos |-> 0, line_number |-> 0]
    /\ tracking_obj = [pos |-> 0, line_number |-> 0]
    /\ text_ops = <<>>

TextInitAll ==
    TextInit /\ EnvIdle /\ PathIdle /\ RunIdle /\ ObjIdle /\ XyzIdle /\ IoIdle /\ LineIdle /\ VerIdle /\ BlockIdle

TextNext ==
    \/ TextReadline
    \/ TextCallNext
    \/ TextFor

SpecText ==
    TextInitAll /\ [][TextNext]_vars

(***************************************************************************)
(* Well-formed XYZ text, read independently of the parser: skipped lines   *)
(* (blank lines and lines that start with a designated comment symbol),    *)
(* and blocks of a header "1", a comment line that holds a number, and one *)
(* atom line.                                                              *)
(***************************************************************************)
is_skipped(line, comment_symbols) ==
    line = <<>> \/ (comment_symbols # None /\ <<Head(line)>> = comment_symbols)

\* the energy a comment line states: its first number
energy_of(line) ==
    IF line = <<"E", "1.5">> THEN <<"1.5">>
    ELSE IF line = <<"1">> THEN <<"1">>
    ELSE IF line = <<"H", "0">> THEN <<"0">>
    ELSE <<>>

RECURSIVE structure_blocks(_, _)
\* the energies of the well-formed blocks at the start of the lines, and the
\* lines that follow them from the first line that is neither skipped nor the
\* start of a well-formed block
structure_blocks(lines, comment_symbols) ==
    IF lines = <<>> THEN [energies |-> <<>>, rest |-> <<>>]
    ELSE IF is_skipped(lines[1], comment_symbols)
    THEN structure_blocks(Tail(lines), comment_symbols)
    ELSE IF /\ Len(lines) >= 3
            /\ lines[1] = <<"1">>
            /\ energy_of(lines[2]) # <<>>
            /\ lines[3] = <<"H", "0">>
    THEN LET r == structure_blocks(SubSeq(lines, 4, Len(lines)), comment_symbols)
         IN  [energies |-> energy_of(lines[2]) \o r.energies, rest |-> r.rest]
    ELSE [energies |-> <<>>, rest |-> lines]

Min(a, b) ==
    IF a <= b THEN a ELSE b

TrjOps ==
    {"from_trj_xyz", "from_trj_xyz_block"}

(***************************************************************************)
(* C14: parsing well-formed XYZ text of K >= 1 structure blocks with       *)
(* Properties.from_trj_xyz (the file existing) or from_trj_xyz_block       *)
(* raises nothing and returns exactly K results in the order of the text;  *)
(* with a limit M >= 1 it returns exactly the first min(M, K) of them.     *)
(***************************************************************************)
C14_AllBlocksInOrder ==
    (xyz_call # NoCall /\ xyz_call.op \in TrjOps /\ xyz_call.exc # "FileNotFoundError") =>
        LET b == structure_blocks(xyz_input, xyz_call.comment_symbols)
            K == Len(b.energies)
            M == xyz_call.n_struc_limit
        IN  (b.rest = <<>> /\ K >= 1) =>
              /\ M = NoLimit => xyz_call.exc = "none" /\ xyz_call.result = b.energies
              /\ M >= 1 => /\ xyz_call.exc = "none"
                           /\ xyz_call.result = SubSeq(b.energies, 1, Min(M, K))

\* two blocks with different energies parsed with limit 1: only the first
\* is returned
C14_Witness ==
    /\ xyz_call # NoCall
    /\ xyz_call.op = "from_trj_xyz"
    /\ xyz_input = <<<<"1">>, <<"E", "1.5">>, <<"H", "0">>, <<"1">>, <<"H", "0">>, <<"H", "0">>>>
    /\ xyz_call.n_struc_limit = 1
    /\ xyz_call.result = <<"1.5">>

\* two blocks parsed without a limit: both are returned, in order
C14_WitnessAll ==
    /\ xyz_call # NoCall
    /\ xyz_call.op = "from_trj_xyz_block"
    /\ xyz_call.n_struc_limit = NoLimit
    /\ xyz_call.result = <<"1.5", "0">>

C15_WitnessEmptyFile ==
    /\ xyz_call # NoCall
    /\ xyz_call.op = "from_xyz"
    /\ xyz_input = <<>>
    /\ xyz_call.exc = "EOFError"

RECURSIVE drop_skipped(_, _)
\* the lines from the first one that is not skipped
drop_skipped(lines, comment_symbols) ==
    IF lines = <<>> THEN lines
    ELSE IF is_skipped(lines[1], comment_symbols) THEN drop_skipped(Tail(lines), comment_symbols)
    ELSE lines

RECURSIVE atom_lines(_)
\* the number of atom lines at the start of the lines
atom_lines(lines) ==
    IF lines # <<>> /\ lines[1] = <<"H", "0">> THEN 1 + atom_lines(Tail(lines)) ELSE 0

(***************************************************************************)
(* C16: when the first structure block of the text declares one atom and   *)
(* its comment line is followed by no atom line or by more than one, the   *)
(* call raises ValueError and returns nothing, whatever follows the block. *)
(***************************************************************************)
C16_AtomCountMismatchRaises ==
    (/\ xyz_call # NoCall
     /\ xyz_call.exc # "FileNotFoundError"
     /\ xyz_call.n_struc_limit >= 1 \/ xyz_call.n_struc_limit = NoLimit)
        => LET block == drop_skipped(xyz_input, xyz_call.comment_symbols)
           IN  (/\ Len(block) >= 2
                /\ block[1] = <<"1">>
                /\ energy_of(block[2]) # <<>>
                /\ atom_lines(SubSeq(block, 3, Len(block))) # 1)
                  => xyz_call.exc = "ValueError" /\ xyz_call.result = <<>>

(***************************************************************************)
(* C17: when the first line that is not skipped, at the start of the text  *)
(* or after well-formed structure blocks fewer than the limit of the call, *)
(* does not start with an integer, the call raises ValueError and returns  *)
(* nothing: not EOFError, and not the results of the blocks before it.     *)
(***************************************************************************)
C17_BadHeaderRaisesValueError ==
    (/\ xyz_call # NoCall
     /\ xyz_call.exc # "FileNotFoundError"
     /\ xyz_call.n_struc_limit >= 1 \/ xyz_call.n_struc_limit = NoLimit)
        => LET b == structure_blocks(xyz_input, xyz_call.comment_symbols)
               reached == \/ xyz_call.n_struc_limit = NoLimit
                          \/ Len(b.energies) < xyz_call.n_struc_limit
           IN  (b.rest # <<>> /\ Head(b.rest[1]) \notin DOMAIN int /\ reached)
                  => xyz_call.exc = "ValueError" /\ xyz_call.result = <<>>

\* a trajectory whose second block starts with a line that is no header
C17_Witness ==
    /\ xyz_call # NoCall
    /\ xyz_call.op = "from_trj_xyz_block"
    /\ xyz_input = <<<<"1">>, <<"E", "1.5">>, <<"H", "0">>, <<>>, <<"E", "1.5">>>>
    /\ xyz_call.n_struc_limit = 2
    /\ xyz_call.exc = "ValueError"

\* a buffer whose first line is no header
C17_WitnessFirst ==
    /\ xyz_call # NoCall
    /\ xyz_call.op = "from_xyz_buffer"
    /\ xyz_input = <<<<"H", "0">>, <<"1">>>>
    /\ xyz_call.exc = "ValueError"

\* the last call of write_input
last_write ==
    write_calls[Len(write_calls)]

C18_WitnessNoStructure ==
    /\ write_calls # <<>>
    /\ last_write.exc = "none"
    /\ last_write.structure = None
    /\ Len(fs[last_write.inpfile]) = 2

C20_WitnessSecond ==
    /\ Len(write_calls) = 2
    /\ ~write_calls[1].existed
    /\ write_calls[1].exc = "none"
    /\ ~write_calls[2].force
    /\ write_calls[2].exc = "RuntimeError"

\* an existing file overwritten: the call returns True
C20_WitnessOverwritten ==
    /\ write_calls # <<>>
    /\ last_write.existed
    /\ last_write.exc = "none"
    /\ last_write.result = TRUE

(***************************************************************************)
(* C19: once BaseRunner.run, Calculator.write_input, from_trj_xyz or       *)
(* from_trj_xyz_block has returned or raised, none of the files and        *)
(* streams it opened is open: no handle is open between two calls.         *)
(***************************************************************************)
C19_NoOpenHandles ==
    open_handles = {}

\* the options of the output block of an Input, none when it holds no
\* output block
output_options(inp) ==
    IF dict_has(inp.blocks, "BlockOutput")
    THEN (CHOOSE p \in inp.blocks : p[1] = "BlockOutput")[2].settings
    ELSE <<>>

\* the options other than the two JSON options
other_options(settings) ==
    SelectSeq(settings, LAMBDA o : o.option \notin {"jsongbwfile", "jsonpropfile"})

(***************************************************************************)
(* C21: after a write_input that returned with json_via_input True, the    *)
(* Input holds exactly one output block, in which jsongbwfile and          *)
(* jsonpropfile are True and the other options are those set before; the   *)
(* other blocks, the keywords and the strings are as before, and a         *)
(* second such write_input leaves the Input as the first one left it.      *)
(* With json_via_input False the Input is as before the call.              *)
(***************************************************************************)
C21_JsonOutputBlock ==
    (write_calls # <<>> /\ last_write.exc = "none") =>
        LET before == last_write.input_before
            others(inp) == {p \in inp.blocks : p[1] # "BlockOutput"}
        IN  /\ last_write.json_via_input =>
                  /\ Cardinality({p \in input.blocks : p[1] = "BlockOutput"}) = 1
                  /\ \A option \in {"jsongbwfile", "jsonpropfile"} :
                        \E i \in 1..Len(output_options(input)) :
                            output_options(input)[i] = [option |-> option, value |-> "True"]
                  /\ other_options(output_options(input)) =
                        other_options(output_options(before))
                  /\ others(input) = others(before)
                  /\ input.simple_keywords = before.simple_keywords
                  /\ input.arbitrary_strings = before.arbitrary_strings
                  /\ (/\ Len(write_calls) = 2
                      /\ write_calls[1].exc = "none"
                      /\ write_calls[1].json_via_input) => input = before
            /\ ~last_write.json_via_input => input = before

\* the output block of the user, with jsongbwfile False and another option,
\* after two calls of write_input
C21_Witness ==
    /\ Len(write_calls) = 2
    /\ write_calls[1].exc = "none"
    /\ write_calls[2].exc = "none"
    /\ write_calls[2].json_via_input
    /\ output_options(write_calls[1].input_before) =
          <<[option |-> "jsongbwfile", value |-> "False"],
            [option |-> "print_mos", value |-> "True"]>>
    /\ output_options(input) =
          <<[option |-> "jsongbwfile", value |-> "True"],
            [option |-> "print_mos", value |-> "True"],
            [option |-> "jsonpropfile", value |-> "True"]>>

\* a write_input with json_via_input False for an Input without output block
C21_WitnessOff ==
    /\ write_calls # <<>>
    /\ last_write.exc = "none"
    /\ ~last_write.json_via_input
    /\ ~dict_has(input.blocks, "BlockOutput")

RECURSIVE without_skipped(_, _)
\* the text without the lines that are blank or start with a comment symbol
\* and stand before a header or after the last structure; the header, the
\* comment line and the declared number of lines after it are kept as they
\* are
without_skipped(lines, comment_symbols) ==
    LET block == drop_skipped(lines, comment_symbols)
        size  == 2 + int[Head(block[1])]
    IN  IF block = <<>> THEN <<>>
        ELSE IF Head(block[1]) \notin DOMAIN int \/ Len(block) < size THEN block
        ELSE SubSeq(block, 1, size)
             \o without_skipped(SubSeq(block, size + 1, Len(block)), comment_symbols)

(***************************************************************************)
(* C22: from_trj_xyz and from_trj_xyz_block end as they do for the text    *)
(* from which the blank lines and the lines starting with a given comment  *)
(* symbol that stand before a header or after the last structure are       *)
(* removed: same exception, same list. Such a line is not skipped behind   *)
(* a header, where it is taken as the comment line (ValueError, it holds   *)
(* no number), nor behind the comment line, where it is taken as an atom   *)
(* line, so that the atom line after it is read as a header (ValueError).  *)
(***************************************************************************)
C22_SkippedLinesIgnored ==
    (xyz_call # NoCall /\ xyz_call.op \in TrjOps /\ xyz_call.exc # "FileNotFoundError") =>
        LET cs    == xyz_call.comment_symbols
            plain == from_trj_xyz_block(without_skipped(xyz_input, cs), cs,
                                        xyz_call.n_struc_limit)
            block == drop_skipped(xyz_input, cs)
        IN  /\ xyz_call.exc = plain.exc
            /\ xyz_call.result = plain.properties
            /\ xyz_call.n_struc_limit \notin {0, 1} =>
                  /\ (/\ Len(block) >= 2
                      /\ block[1] = <<"1">>
                      /\ is_skipped(block[2], cs)) => xyz_call.exc = "ValueError"
                  /\ (/\ Len(block) >= 4
                      /\ block[1] = <<"1">>
                      /\ energy_of(block[2]) # <<>>
                      /\ is_skipped(block[3], cs)
                      /\ block[4] = <<"H", "0">>) => xyz_call.exc = "ValueError"

\* a structure with a user comment and a blank line before its header and
\* a blank line after it
C22_Witness ==
    /\ xyz_call # NoCall
    /\ xyz_call.op = "from_trj_xyz_block"
    /\ xyz_call.comment_symbols = <<"#">>
    /\ xyz_call.n_struc_limit = NoLimit
    /\ xyz_input = <<<<"#">>, <<>>, <<"1">>, <<"E", "1.5">>, <<"H", "0">>, <<>>>>
    /\ xyz_call.result = <<"1.5">>

\* a blank line between a structure and the header of the next, which is
\* cut short
C22_WitnessBetween ==
    /\ xyz_call # NoCall
    /\ xyz_call.op = "from_trj_xyz"
    /\ xyz_call.n_struc_limit = NoLimit
    /\ xyz_input = <<<<"1">>, <<"E", "1.5">>, <<"H", "0">>, <<>>, <<"1">>, <<"1">>>>
    /\ xyz_call.exc = "ValueError"

(***************************************************************************)
(* The numbers of a comment line, read independently of the regular        *)
(* expression: the maximal runs of digits and points that no letter        *)
(* touches.                                                                *)
(***************************************************************************)
numeric(c) ==
    isdigit(c) \/ c = "."

\* the last position of the run of digits and points that starts at i
run_end(line, i) ==
    CHOOSE j \in i..Len(line) :
        /\ \A k \in i..j : numeric(line[k])
        /\ j = Len(line) \/ ~numeric(line[j + 1])

\* the positions where a run of digits and points starts
run_starts(line) ==
    {i \in 1..Len(line) : numeric(line[i]) /\ (i = 1 \/ ~numeric(line[i - 1]))}

\* every run is written as a number: at most one point, a digit at least
well_written(line) ==
    \A i \in run_starts(line) :
        /\ Cardinality({k \in i..run_end(line, i) : line[k] = "."}) <= 1
        /\ \E k \in i..run_end(line, i) : isdigit(line[k])

RECURSIVE plain_numbers(_, _)
\* the runs from position i on that no letter touches, as numbers
plain_numbers(line, i) ==
    IF i > Len(line) THEN <<>>
    ELSE IF ~numeric(line[i]) THEN plain_numbers(line, i + 1)
    ELSE LET j == run_end(line, i)
             touched == \/ i > 1 /\ isalpha(line[i - 1])
                        \/ j < Len(line) /\ isalpha(line[j + 1])
         IN  (IF touched THEN <<>> ELSE <<float(SubSeq(line, i, j))>>)
             \o plain_numbers(line, j + 1)

(***************************************************************************)
(* C23: of the numbers of the comment line, digits that touch a letter not *)
(* counted, docker mode takes the first as structure_id, the second as     *)
(* energy_total and the third as energy_relative, and raises ValueError    *)
(* when there are fewer than three; goat mode takes the first as           *)
(* energy_total, leaves structure_id and energy_relative unset, and raises *)
(* ValueError when there is none.                                          *)
(***************************************************************************)
C23_CommentLineNumbers ==
    (energies_call # NoCall /\ well_written(comment_line)) =>
        LET numbers == plain_numbers(comment_line, 1)
            least == IF energies_call.mode = "docker" THEN 3 ELSE 1
        IN  IF Len(numbers) < least
            THEN energies_call.exc = "ValueError"
            ELSE /\ energies_call.exc = "none"
                 /\ energies_call.mode = "docker" =>
                       /\ energies_call.structure_id = int_float(numbers[1])
                       /\ energies_call.energy_total = numbers[2]
                       /\ energies_call.energy_relative = numbers[3]
                 /\ energies_call.mode = "goat" =>
                       /\ energies_call.structure_id = None
                       /\ energies_call.energy_total = numbers[1]
                       /\ energies_call.energy_relative = None

(***************************************************************************)
(* C24: after BaseRunner.run has returned or raised, a dump path passed as *)
(* stdout= or stderr= does not exist as an empty file: a dump the process  *)
(* wrote nothing to is gone, and a dump that exists holds the output of    *)
(* this call and nothing of an earlier call.                               *)
(***************************************************************************)
dump_of_this_call(source, suffix, lines) ==
    source # "None" =>
        \/ dump_path(source, suffix) \notin DOMAIN fs
        \/ /\ lines # <<>>
           /\ fs[dump_path(source, suffix)] = lines

C24_NoEmptyDump ==
    (io_call # NoCall /\ io_call.op = "run") =>
        /\ dump_of_this_call(io_call.args[1], <<"out">>, io_call.args[3])
        /\ dump_of_this_call(io_call.args[2], <<"err">>, io_call.args[4])

\* whether the version of an installation can be determined, and whether
\* it is supported
undeterminable(orca) ==
    ~orca.found \/ orca.answer \in {"unparsable", "silent"}

compatible(orca) ==
    ~undeterminable(orca) /\ orca.answer = "compatible"

(***************************************************************************)
(* C25: check_version(ignore_errors=True) never raises and returns True    *)
(* for a compatible version, False for an incompatible one and None when   *)
(* the version cannot be determined (binary missing, no answer in time,    *)
(* unparsable output); check_version(ignore_errors=False) returns True or  *)
(* raises RuntimeError and nothing else; Calculator(version_check=True)    *)
(* raises RuntimeError exactly when the version is incompatible or cannot  *)
(* be determined.                                                          *)
(***************************************************************************)
C25_VersionCheck ==
    \A i \in 1..Len(version_calls) :
        LET c == version_calls[i]
            expected == IF compatible(orca_install) THEN "True"
                        ELSE IF undeterminable(orca_install) THEN "None" ELSE "False"
        IN  /\ (c.op = "check_version" /\ c.flag) =>
                  c.result = Result("none", expected)
            /\ (c.op = "check_version" /\ ~c.flag) =>
                  c.result = IF compatible(orca_install) THEN Result("none", "True")
                             ELSE Result("RuntimeError", "none")
            /\ (c.op = "Calculator" /\ c.flag) =>
                  c.result.exc = IF compatible(orca_install) THEN "none" ELSE "RuntimeError"

\* two names are equal ignoring case
same_option(a, b) ==
    \/ a = b
    \/ {a, b} = {"xtbfod", "XTBFOD"}

\* the calls that changed the option called n: the successful calls on a
\* name equal to n ignoring case, and every clear_options
changes_of(n) ==
    {i \in 1..Len(option_ops) :
        /\ option_ops[i].exc = "none"
        /\ \/ option_ops[i].op = "clear_options"
           \/ same_option(option_ops[i].option, n)}

Max(S) ==
    CHOOSE x \in S : \A y \in S : y <= x

\* the option called n is set by the calls made: the last call that
\* changed it is an add_option or a modify_option
is_set(n) ==
    /\ changes_of(n) # {}
    /\ option_ops[Max(changes_of(n))].op \in {"add_option", "modify_option"}

(***************************************************************************)
(* C26: whatever add_option, modify_option, remove_option and              *)
(* clear_options calls were made on a block, has_option(n) is True exactly *)
(* when the last successful call on a name equal to n ignoring case was an *)
(* add_option or modify_option with no clear_options after it, and         *)
(* get_option(n) then returns the value of that call; add_option on a name *)
(* that exists raises KeyError, remove_option on a name that does not      *)
(* exist raises KeyError, and a call that raises changes nothing.          *)
(***************************************************************************)
C26_OptionsFollowCalls ==
    /\ \A n \in OptionNames :
          /\ has_option(block_arbitrary, n) = is_set(n)
          /\ is_set(n) =>
                get_option(block_arbitrary, n) =
                   [exc |-> "none", value |-> <<option_ops[Max(changes_of(n))].val>>]
    /\ \A i \in 1..Len(option_ops) :
          LET before == {j \in changes_of(option_ops[i].option) : j < i}
              existed == before # {} /\ option_ops[Max(before)].op \in
                                           {"add_option", "modify_option"}
          IN  /\ option_ops[i].op = "add_option" =>
                    (option_ops[i].exc = "KeyError") = existed
              /\ option_ops[i].op = "remove_option" =>
                    (option_ops[i].exc = "KeyError") = ~existed
              /\ option_ops[i].op \in {"modify_option", "clear_options"} =>
                    option_ops[i].exc = "none"

\* an option added under one spelling, then add_option under the other
\* spelling raised KeyError and the first value is still there
C26_Witness ==
    /\ Len(option_ops) = 2
    /\ option_ops[1] = [op |-> "add_option", option |-> "xtbfod", val |-> "True",
                        exc |-> "none"]
    /\ option_ops[2] = [op |-> "add_option", option |-> "XTBFOD", val |-> "False",
                        exc |-> "KeyError"]
    /\ get_option(block_arbitrary, "XTBFOD") = [exc |-> "none", value |-> <<"True">>]

\* an option set, cleared, and then removed: KeyError
C26_WitnessCleared ==
    /\ Len(option_ops) = 3
    /\ option_ops[1].op = "modify_option"
    /\ option_ops[2].op = "clear_options"
    /\ option_ops[3].op = "remove_option"
    /\ option_ops[3].exc = "KeyError"
    /\ option_ops[3].option = option_ops[1].option

(***************************************************************************)
(* C27: a process launched by Calculator.run executes the input file       *)
(* <working_dir>/<basename>.inp of the calculator's current basename and   *)
(* working_dir, the job its Output refers to, also when basename or        *)
(* working_dir was assigned after the last write_input.                    *)
(***************************************************************************)
C27_RunsCurrentInput ==
    (cur # NoCall /\ cur.caller = "calc") =>
        cur.inpfile = File(calc.working_dir, calc.basename, <<"inp">>)

(***************************************************************************)
(* C28: the input file name Runner.run_orca passes to ORCA, resolved        *)
(* against the working directory of the process, is the file inpfile whose  *)
(* existence run_orca checked and next to which the dumps are written.      *)
(***************************************************************************)
C28_OrcaReadsCheckedFile ==
    cur # NoCall =>
        /\ [dir |-> launches[1].cwd, name |-> launches[1].cmd[2]] = cur.inpfile
        /\ launches[1].stdout.dir = launches[1].cwd
        /\ launches[1].stderr.dir = launches[1].cwd

\* the entries of the value of a search path variable: none for a variable
\* that is unset or empty
entries(val) ==
    IF val = <<>> THEN <<>> ELSE split(val, pathsep)

\* the value of a variable after the add_to_env(..., prepend=True) calls of
\* a wrapped call, against its value before them: the entries added come
\* first and none is empty, the earlier entries follow in their order, and
\* add_to_env of the first entry changes nothing
prepended(before_env, after_env, variable) ==
    LET before == entries(env_get(before_env, variable))
        after  == entries(env_get(after_env, variable))
    IN  /\ after # <<>>
        /\ \E k \in 0..2 :
              /\ k <= Len(after)
              /\ SubSeq(after, k + 1, Len(after)) = before
              /\ \A i \in 1..k : after[i] # <<>>
        /\ add_to_env(after_env, variable, after[1], TRUE).env = after_env

(***************************************************************************)
(* C29: add_to_env(variable, value, prepend=True) leaves value as the      *)
(* first entry of the variable and keeps the earlier entries in their      *)
(* order; applying it again changes nothing; and it introduces no empty    *)
(* entry, also when the variable is unset or empty.                        *)
(***************************************************************************)
C29_PrependKeepsEntries ==
    env_pc = "runner" =>
        /\ prepended(org_env, os_environ.data, "PATH")
        /\ prepended(org_env, os_environ.data, "LD_LIBRARY_PATH")

\* the number of lines a read handed out
lines_of(op, r) ==
    IF op = "for" THEN Len(r.value)
    ELSE IF r.exc = "none" /\ r.value # "" THEN 1 ELSE 0

RECURSIVE handed_out(_, _)
\* the number of lines the first n reads handed out, for one of the objects
handed_out(n, which) ==
    IF n = 0 THEN 0
    ELSE handed_out(n - 1, which) + lines_of(text_ops[n].op, text_ops[n][which])

(***************************************************************************)
(* C30: under any interleaving of readline(), next() and for-iteration on  *)
(* the same text, the TrackingTextIO of opi.utils.textio and the one of    *)
(* opi.utils.tracking_text_io return the same lines and raise alike,       *)
(* line_number of each is the number of lines it handed out, and a read at *)
(* the end of the text returns "" or stops the iteration and leaves        *)
(* line_number unchanged.                                                  *)
(***************************************************************************)
C30_SameReads ==
    /\ textio_obj.line_number = handed_out(Len(text_ops), "textio")
    /\ tracking_obj.line_number = handed_out(Len(text_ops), "tracking")
    /\ \A i \in 1..Len(text_ops) :
          /\ text_ops[i].textio = text_ops[i].tracking
          /\ handed_out(i - 1, "tracking") = Len(text_stream.lines) =>
                text_ops[i].tracking =
                   IF text_ops[i].op = "readline" THEN [exc |-> "none", value |-> ""]
                   ELSE IF text_ops[i].op = "next"
                   THEN [exc |-> "StopIteration", value |-> ""]
                   ELSE [exc |-> "none", value |-> <<>>]

====
